---- MODULE Spec2Model ----
(***************************************************************************)
(* Model of the tabular report reconciliation scripts of comp_meta:        *)
(*   - the filial-totals scan (VendasFilialProcessor.process_excel_data    *)
(*     and the older script function process_excel_data),                  *)
(*   - the per-employee scans (ComissaoProcessor, VendasVendedorProcessor),*)
(*   - the column resolver DataCombiner._find_and_rename_column,           *)
(*   - DataCombiner._clean_cpf, combine_data, create_filtered_worksheet    *)
(*     and main() of user_calc.py,                                         *)
(*   - the uploads to Google Sheets with their retry wrappers,             *)
(*   - SCIDownloader.run and the file names it writes,                     *)
(*   - SCICSVProcessor.extract_filial_from_filename and merge_all_files.   *)
(* Python strings are sequences of one-character strings; a spreadsheet    *)
(* cell is a tagged record (None / NaN, str, int, float).                  *)
(***************************************************************************)
EXTENDS Integers, Sequences, FiniteSets, TLC

VARIABLES
    variant,          \* which filial-totals script runs: "read" or "ready"
    nrows,            \* number of sheet rows iterated so far
    filial_number,    \* captured group identifier (a cell: None or str)
    faturamento_hb,   \* captured auxiliary value (a cell)
    data,             \* records emitted by the filial-totals scan
    status,           \* "scanning", "returned" or "raised"
    df,               \* the DataFrame returned by process_excel_data
    main_result,      \* how main() ended ("none" while it has not)
    last_row,         \* history: the row scanned by the last iteration
    open_row,         \* history: the most recent 'Filial:' row scanned
    last_marker,      \* history: the most recent 'Filial:' or 'Total Filial' row
    hb_since_open,    \* history: value of the latest '8000' row since open_row
    hb_since_emit,    \* history: values of the '8000' rows since the last emission
    shadow,           \* history: the scan of the same rows without the inert ones
    n_open,           \* history: number of 'Filial:' rows scanned
    n_close,          \* history: number of 'Total Filial' rows scanned
    vvariant,         \* which per-employee script runs: "comissao" or "vendedor"
    vnrows,           \* number of DataFrame rows iterated so far
    filial,           \* filial / current_filial of the per-employee scan
    resultados,       \* records emitted by the per-employee scan
    vstatus,          \* "scanning", "returned" or "raised"
    result_df,        \* the DataFrame returned by the per-employee scan
    v_last_row,       \* history: the row scanned by the last iteration
    v_open_row,       \* history: the most recent 'Filial:' row scanned
    v_details,        \* history: number of numeric-Código rows scanned
    columns,          \* df.columns given to _find_and_rename_column
    search_terms,     \* its search_terms
    target_name,      \* its target_name
    out_columns,      \* df.columns of the returned DataFrame
    matched,          \* index of the column the loops stopped at, 0 if none
    warned,           \* the "Could not find column" warning was logged
    rstatus,          \* "input" or "done"
    cpf_vals,         \* a CPF cell followed by its successive cleanings
    sci_in,           \* history: worksheet user_sci as get_sheet_data returned it
    trier_in,         \* history: worksheet user_trier as get_sheet_data returned it
    sci_df,           \* sci_df of combine_data
    trier_df,         \* trier_df of combine_data
    merged_df,        \* merged_df of combine_data
    final_df,         \* final_df of combine_data
    cstatus,          \* position of combine_data
    wdf,              \* the DataFrame given to create_filtered_worksheet
    values,           \* the rows create_filtered_worksheet uploads
    wstatus,          \* "input" or "uploaded"
    calc_exit,        \* the exit code of user_calc's main(), "none" while it runs
    uvariant,         \* which uploader runs
    worksheet,        \* the cells of the target worksheet: (row, column) -> value
    upload_rows,      \* number of data rows of the DataFrame to upload
    outcomes,         \* history: the outcome of each invocation of the update call
    ops,              \* history: the calls made on the worksheet, in order
    ustatus,          \* "start", "cleared", "written" or "failed"
    uerror,           \* what a failed upload raised
    csv_files,        \* the files merge_all_files found in the input folder
    file_idx,         \* number of files the loop of merge_all_files has handled
    all_data,         \* all_data of merge_all_files
    merged,           \* merged of merge_all_files
    input_folder,     \* the files of the input folder, in os.listdir order
    mstatus,          \* "loop", "returned" or "raised"
    fname,            \* a file name given to extract_filial_from_filename
    fextract,         \* what it returned or raised
    run_idx,          \* number of entries of xpaths_filiais that run() has handled
    downloaded_files, \* downloaded_files of run()
    attempted,        \* history: the filiais attempted, in order
    run_status        \* "loop", "returned" or "raised"

filialVars == <<variant, nrows, filial_number, faturamento_hb, data, status, df, main_result>>
filialHist == <<last_row, open_row, last_marker, hb_since_open, hb_since_emit, shadow,
               n_open, n_close>>
vendVars == <<vvariant, vnrows, filial, resultados, vstatus, result_df,
             v_last_row, v_open_row, v_details>>
resVars == <<columns, search_terms, target_name, out_columns, matched, warned, rstatus>>
cpfVars == <<cpf_vals>>
combVars == <<sci_in, trier_in, sci_df, trier_df, merged_df, final_df, cstatus, calc_exit>>
projVars == <<wdf, values, wstatus>>
uploadVars == <<uvariant, worksheet, upload_rows, outcomes, ops, ustatus, uerror>>
sciVars == <<csv_files, file_idx, all_data, merged, input_folder, mstatus>>
nameVars == <<fname, fextract>>
runVars == <<run_idx, downloaded_files, attempted, run_status>>
extVars == <<uploadVars, sciVars, nameVars, runVars>>
calcVars == <<cpfVars, combVars, projVars, extVars>>
vars == <<filialVars, filialHist, vendVars, resVars, calcVars>>

(***************************************************************************)
(* Bounds of the model.                                                    *)
(***************************************************************************)
MaxRows == 6
MaxVRows == 5
MaxCols == 3
MaxTerms == 2

(***************************************************************************)
(* Python values.                                                          *)
(***************************************************************************)
NoneV == [t |-> "none", s |-> <<>>, n |-> 0]
NaN == [t |-> "nan", s |-> <<>>, n |-> 0]
StrV(s) == [t |-> "str", s |-> s, n |-> 0]
IntV(n) == [t |-> "int", s |-> <<>>, n |-> n]
FloatV(n) == [t |-> "float", s |-> <<>>, n |-> n]

Digits == <<"0", "1", "2", "3", "4", "5", "6", "7", "8", "9">>
DigitSet == {Digits[i] : i \in 1..10}
Whitespace == {" "}

RECURSIVE IntToStr(_)
IntToStr(n) ==
    IF n < 10 THEN <<Digits[n + 1]>>
    ELSE IntToStr(n \div 10) \o <<Digits[(n % 10) + 1]>>

\* str(x) of a cell value; a float here is always integral (5.0 -> "5.0")
PyStr(c) ==
    CASE c.t = "none" -> <<"N", "o", "n", "e">>
      [] c.t = "nan" -> <<"n", "a", "n">>
      [] c.t = "str" -> c.s
      [] c.t = "int" -> IntToStr(c.n)
      [] c.t = "float" -> IntToStr(c.n) \o <<".", "0">>

\* bool(x)
Truthy(c) ==
    CASE c.t = "none" -> FALSE
      [] c.t = "nan" -> TRUE
      [] c.t = "str" -> c.s # <<>>
      [] c.t = "int" -> c.n # 0
      [] c.t = "float" -> c.n # 0

RECURSIVE LStrip(_)
LStrip(s) ==
    IF s # <<>> /\ Head(s) \in Whitespace THEN LStrip(Tail(s)) ELSE s

RECURSIVE RStrip(_)
RStrip(s) ==
    IF s # <<>> /\ s[Len(s)] \in Whitespace THEN RStrip(SubSeq(s, 1, Len(s) - 1)) ELSE s

\* str.strip()
Strip(s) == RStrip(LStrip(s))

LowerChar(c) ==
    CASE c = "F" -> "f" [] c = "I" -> "i" [] c = "L" -> "l" [] c = "A" -> "a"
      [] c = "T" -> "t" [] c = "O" -> "o" [] c = "C" -> "c" [] c = "D" -> "d"
      [] c = "G" -> "g" [] c = "N" -> "n" [] c = "M" -> "m" [] c = "E" -> "e"
      [] c = "R" -> "r" [] c = "Ó" -> "ó" [] c = "Á" -> "á" [] c = "P" -> "p"
      [] c = "U" -> "u" [] c = "S" -> "s" [] c = "B" -> "b" [] c = "V" -> "v"
      [] OTHER -> c

\* str.lower()
Lower(s) == [i \in 1..Len(s) |-> LowerChar(s[i])]

\* str.startswith(p)
StartsWith(s, p) == Len(s) >= Len(p) /\ SubSeq(s, 1, Len(p)) = p

\* p in s
Contains(s, p) == \E i \in 0..(Len(s) - Len(p)) : SubSeq(s, i + 1, i + Len(p)) = p

RECURSIVE TakeToken(_)
TakeToken(s) ==
    IF s = <<>> \/ Head(s) \in Whitespace THEN <<>> ELSE <<Head(s)>> \o TakeToken(Tail(s))

\* s.split() is empty (s.split()[0] raises IndexError)
SplitEmpty(s) == LStrip(s) = <<>>

\* s.split()[0]
SplitFirst(s) == TakeToken(LStrip(s))

\* str.zfill(w): zeros are inserted after a leading sign
Zfill(s, w) ==
    LET pad == [i \in 1..(w - Len(s)) |-> "0"]
    IN IF Len(s) >= w THEN s
       ELSE IF s # <<>> /\ Head(s) \in {"+", "-"} THEN <<Head(s)>> \o pad \o Tail(s)
       ELSE pad \o s

\* str.isdigit() / str.isnumeric() on the ASCII alphabet of the model
IsDigits(s) == s # <<>> /\ \A i \in 1..Len(s) : s[i] \in DigitSet


RECURSIVE StrToInt(_)
\* int(s) for a string of decimal digits
StrToInt(s) ==
    IF Len(s) = 0 THEN 0
    ELSE StrToInt(SubSeq(s, 1, Len(s) - 1)) * 10
         + (CHOOSE d \in 0..9 : Digits[d + 1] = s[Len(s)])

(***************************************************************************)
(* Cell texts of the banded reports.                                       *)
(***************************************************************************)
sFilial == <<"F", "i", "l", "i", "a", "l", ":">>
sFILIALpad == <<" ", "F", "I", "L", "I", "A", "L", ":", " ">>
s8000 == <<"8", "0", "0", "0">>
sTotalFilial05 == <<"T", "o", "t", "a", "l", " ", "F", "i", "l", "i", "a", "l", " ", "0", "5">>
sTOTALFILIAL == <<"T", "O", "T", "A", "L", " ", "F", "I", "L", "I", "A", "L">>
sCodigo == <<"C", "ó", "d", "i", "g", "o">>
s123 == <<"1", "2", "3">>
sTotal == <<"T", "o", "t", "a", "l">>
s5 == <<"5">>
s12X == <<"1", "2", " ", "X">>
sBlank == <<" ">>

\* the literals the scans compare against
litFilial == <<"f", "i", "l", "i", "a", "l", ":">>
litTotalFilial == <<"t", "o", "t", "a", "l", " ", "f", "i", "l", "i", "a", "l">>

(***************************************************************************)
(* Sheet rows of the filial-totals report: the cells the scan reads.       *)
(***************************************************************************)
Row(codigo, next, venda, custo, descto, ticket) ==
    [codigo |-> codigo, next |-> next, total_vlr_venda |-> venda,
     total_vlr_custo |-> custo, vlr_descto |-> descto, ticket_medio |-> ticket]

OpenRows ==
    {Row(StrV(sFilial), n, NoneV, NoneV, NoneV, NoneV) :
        n \in {StrV(s5), StrV(s12X), IntV(7), NoneV, StrV(sBlank)}}
    \cup {Row(StrV(sFILIALpad), StrV(s5), NoneV, NoneV, NoneV, NoneV)}

SentinelRows ==
    {Row(IntV(8000), NoneV, IntV(1000), IntV(1), IntV(2), IntV(3)),
     Row(StrV(s8000), NoneV, IntV(2000), IntV(1), IntV(2), IntV(3))}

CloseRows ==
    {Row(StrV(sTotalFilial05), NoneV, IntV(900), IntV(600), IntV(50), IntV(20)),
     Row(StrV(sTOTALFILIAL), NoneV, IntV(901), IntV(700), NoneV, IntV(21))}

\* row 1 of the sheet: the header, whose "Código" cell _get_column_index found
HeaderRow ==
    Row(StrV(sCodigo), StrV(<<"N">>), StrV(<<"V">>), StrV(<<"C">>), StrV(<<"D">>),
        StrV(<<"T">>))

OtherRows ==
    {Row(StrV(s123), StrV(s5), IntV(1000), IntV(4), IntV(5), IntV(6)),
     Row(StrV(sTotal), NoneV, IntV(902), IntV(7), IntV(8), IntV(9))}

SheetRows == OpenRows \cup SentinelRows \cup CloseRows \cup OtherRows

(***************************************************************************)
(* The filial-totals scan: one iteration of `for row in sheet.iter_rows`.  *)
(* st is the loop state [filial_number, faturamento_hb, data, status].     *)
(***************************************************************************)
\* codigo = str(row[col_codigo]).strip() if <cell test> else ""
FilialCodigo(v, row) ==
    IF v = "read"
    THEN (IF row.codigo.t # "none" THEN Strip(PyStr(row.codigo)) ELSE <<>>)
    ELSE (IF Truthy(row.codigo) THEN Strip(PyStr(row.codigo)) ELSE <<>>)

IsOpenRow(v, row) == Lower(FilialCodigo(v, row)) = litFilial
IsSentinelRow(v, row) == ~IsOpenRow(v, row) /\ FilialCodigo(v, row) = s8000
IsCloseRow(v, row) ==
    /\ ~IsOpenRow(v, row)
    /\ ~IsSentinelRow(v, row)
    /\ StartsWith(Lower(FilialCodigo(v, row)), litTotalFilial)

\* the `if codigo.lower() == "filial:"` branch
FilialOpen(v, st, row) ==
    IF v = "read" /\ ~Truthy(row.next) THEN st
    ELSE IF SplitEmpty(PyStr(row.next)) THEN [st EXCEPT !.status = "raised"]
    ELSE [st EXCEPT !.filial_number = StrV(SplitFirst(PyStr(row.next)))]

\* the `if codigo == "8000"` branch
FilialSentinel(st, row) == [st EXCEPT !.faturamento_hb = row.total_vlr_venda]

\* mutant: the identifier is emitted without zero padding
FilialClose_NoPad(st, row) ==
    IF ~Truthy(st.filial_number) THEN st
    ELSE [st EXCEPT
            !.data = Append(@, [Filial |-> st.filial_number.s,
                                FaturamentoHB |-> st.faturamento_hb,
                                CustoTotal |-> row.total_vlr_custo,
                                FaturamentoTotal |-> row.vlr_descto,
                                TicketMedio |-> row.ticket_medio]),
            !.filial_number = NoneV,
            !.faturamento_hb = NoneV]

\* mutant: the "reset for next filial" is missing
FilialClose_NoReset(st, row) ==
    IF ~Truthy(st.filial_number) THEN st
    ELSE [st EXCEPT
            !.data = Append(@, [Filial |-> Zfill(st.filial_number.s, 2),
                                FaturamentoHB |-> st.faturamento_hb,
                                CustoTotal |-> row.total_vlr_custo,
                                FaturamentoTotal |-> row.vlr_descto,
                                TicketMedio |-> row.ticket_medio])]

\* mutant: a close row without identifier raises (None.zfill) instead of being skipped
FilialClose_OrphanRaises(st, row) ==
    IF ~Truthy(st.filial_number) THEN [st EXCEPT !.status = "raised"]
    ELSE [st EXCEPT
            !.data = Append(@, [Filial |-> Zfill(st.filial_number.s, 2),
                                FaturamentoHB |-> st.faturamento_hb,
                                CustoTotal |-> row.total_vlr_custo,
                                FaturamentoTotal |-> row.vlr_descto,
                                TicketMedio |-> row.ticket_medio]),
            !.filial_number = NoneV,
            !.faturamento_hb = NoneV]

\* mutant: only faturamento_hb is reset, the identifier stays for the next close row
FilialClose_KeepsNumber(st, row) ==
    IF ~Truthy(st.filial_number) THEN st
    ELSE [st EXCEPT
            !.data = Append(@, [Filial |-> Zfill(st.filial_number.s, 2),
                                FaturamentoHB |-> st.faturamento_hb,
                                CustoTotal |-> row.total_vlr_custo,
                                FaturamentoTotal |-> row.vlr_descto,
                                TicketMedio |-> row.ticket_medio]),
            !.faturamento_hb = NoneV]

\* the `if codigo.lower().startswith("total filial")` branch
FilialClose(st, row) ==
    IF ~Truthy(st.filial_number) THEN st
    ELSE [st EXCEPT
            !.data = Append(@, [Filial |-> Zfill(st.filial_number.s, 2),
                                FaturamentoHB |-> st.faturamento_hb,
                                CustoTotal |-> row.total_vlr_custo,
                                FaturamentoTotal |-> row.vlr_descto,
                                TicketMedio |-> row.ticket_medio]),
            !.filial_number = NoneV,
            !.faturamento_hb = NoneV]

\* mutant: any other row ends the open group
FilialStep_OtherRowCloses(v, st, row) ==
    IF IsOpenRow(v, row) THEN FilialOpen(v, st, row)
    ELSE IF IsSentinelRow(v, row) THEN FilialSentinel(st, row)
    ELSE IF IsCloseRow(v, row) THEN FilialClose(st, row)
    ELSE [st EXCEPT !.filial_number = NoneV]

FilialStep(v, st, row) ==
    IF IsOpenRow(v, row) THEN FilialOpen(v, st, row)
    ELSE IF IsSentinelRow(v, row) THEN FilialSentinel(st, row)
    ELSE IF IsCloseRow(v, row) THEN FilialClose(st, row)
    ELSE st

FilialInit == [filial_number |-> NoneV, faturamento_hb |-> NoneV, data |-> <<>>,
               status |-> "scanning"]

\* the whole loop over a row sequence; an exception ends it
RECURSIVE FilialScan(_, _, _)
FilialScan(v, st, rs) ==
    IF rs = <<>> \/ st.status # "scanning" THEN st
    ELSE FilialScan(v, FilialStep(v, st, Head(rs)), Tail(rs))

\* pd.to_numeric(column, errors='coerce') on one value
ToNumeric(c) ==
    CASE c.t \in {"int", "float"} -> c
      [] c.t = "str" /\ IsDigits(Strip(c.s)) -> IntV(StrToInt(Strip(c.s)))
      [] OTHER -> NaN

CoerceRecord(r) ==
    [r EXCEPT !.FaturamentoHB = ToNumeric(@), !.CustoTotal = ToNumeric(@),
              !.FaturamentoTotal = ToNumeric(@), !.TicketMedio = ToNumeric(@)]

FilialState == [filial_number |-> filial_number, faturamento_hb |-> faturamento_hb,
                data |-> data, status |-> status]

IsInertRow(v, row) == ~IsOpenRow(v, row) /\ ~IsSentinelRow(v, row) /\ ~IsCloseRow(v, row)

\* no row: the value of the row-valued history variables before any such row
NoRow == Row(NoneV, NoneV, NoneV, NoneV, NoneV, NoneV)

\* bookkeeping of the history variables for one scanned row; st is the new loop state
FilialHistory(row, st) ==
    /\ last_row' = row
    /\ open_row' = IF IsOpenRow(variant, row) THEN row ELSE open_row
    /\ last_marker' = IF IsOpenRow(variant, row) \/ IsCloseRow(variant, row)
                      THEN row ELSE last_marker
    /\ hb_since_open' = IF IsOpenRow(variant, row) THEN NoneV
                        ELSE IF IsSentinelRow(variant, row) THEN row.total_vlr_venda
                        ELSE hb_since_open
    /\ hb_since_emit' = IF Len(st.data) > Len(data) THEN {}
                        ELSE IF IsSentinelRow(variant, row)
                             THEN hb_since_emit \cup {row.total_vlr_venda}
                        ELSE hb_since_emit
    /\ shadow' = IF IsInertRow(variant, row) \/ shadow.status # "scanning" THEN shadow
                 ELSE FilialStep(variant, shadow, row)
    /\ n_open' = IF IsOpenRow(variant, row) THEN n_open + 1 ELSE n_open
    /\ n_close' = IF IsCloseRow(variant, row) THEN n_close + 1 ELSE n_close

ScanFilialRow ==
    /\ status = "scanning"
    /\ nrows < MaxRows
    /\ \E row \in (IF nrows = 0 THEN {HeaderRow} ELSE SheetRows) :
        LET st == FilialStep(variant, FilialState, row)
        IN /\ nrows' = nrows + 1
           /\ filial_number' = st.filial_number
           /\ faturamento_hb' = st.faturamento_hb
           /\ data' = st.data
           /\ status' = st.status
           /\ FilialHistory(row, st)
    /\ UNCHANGED <<variant, df, main_result, vendVars, resVars, calcVars>>

\* after the loop: df = pd.DataFrame(data), the emptiness check, the coercion
FinishFilialScan ==
    /\ status = "scanning"
    /\ nrows >= 1
    /\ IF variant = "read"
       THEN IF data = <<>>
            THEN status' = "raised" /\ df' = df
            ELSE /\ status' = "returned"
                 /\ df' = [i \in 1..Len(data) |-> CoerceRecord(data[i])]
       ELSE status' = "returned" /\ df' = data
    /\ UNCHANGED <<variant, nrows, filial_number, faturamento_hb, data, main_result,
                   filialHist, vendVars, resVars, calcVars>>

\* main() after process_excel_data: the upload may succeed, fail with a
\* GoogleSheetsError, or fail unexpectedly; the older script only logs a failure
FilialMain ==
    /\ status \in {"returned", "raised"}
    /\ main_result = "none"
    /\ IF variant = "read"
       THEN IF status = "raised" THEN main_result' = "exit1"
            ELSE \E r \in {"exit0", "exit1", "exit2"} : main_result' = r
       ELSE IF status = "raised" THEN main_result' = "logged_error"
            ELSE IF df = <<>> THEN main_result' = "skipped"
            ELSE \E ok \in BOOLEAN :
                    main_result' = IF ok THEN "uploaded" ELSE "logged_error"
    /\ UNCHANGED <<variant, nrows, filial_number, faturamento_hb, data, status, df,
                   filialHist, vendVars, resVars, calcVars>>

(***************************************************************************)
(* The per-employee scans: ComissaoProcessor.process_excel_data and        *)
(* VendasVendedorProcessor.process_excel_data.  A DataFrame row holds the  *)
(* cells the loops read; an empty spreadsheet cell is NaN.                 *)
(***************************************************************************)
sfilial == <<"f", "i", "l", "i", "a", "l", ":", " ">>
s12pad == <<" ", "1", "2", " ">>
s45pad == <<" ", "4", "5", " ">>
sX == <<"X">>
sAna == <<"A", "n", "a">>

VRow(codigo, vendedor, unnamed3, valor) ==
    [codigo |-> codigo, vendedor |-> vendedor, unnamed3 |-> unnamed3, valor |-> valor]

NoVRow == VRow(NoneV, NoneV, NoneV, NoneV)

\* marker rows: the identifier sits in the Vendedor column (commission report)
\* and in the fourth, unnamed column (sales-by-seller report)
VOpenRows ==
    {VRow(StrV(c), id, id, NaN) :
        c \in {sFilial, sfilial},
        id \in {StrV(s5), StrV(s12pad), FloatV(3), StrV(sX), StrV(sBlank), NaN}}

VDetailRows ==
    {VRow(c, StrV(sAna), NaN, IntV(100)) : c \in {StrV(s123), IntV(45), StrV(s45pad)}}
    \cup {VRow(StrV(s123), NaN, NaN, NaN)}

VOtherRows == {VRow(NaN, NaN, NaN, IntV(999)), VRow(FloatV(7), StrV(sAna), NaN, IntV(100))}

VSheetRows == VOpenRows \cup VDetailRows \cup VOtherRows

\* pd.notna(x)
NotNa(c) == c.t \notin {"none", "nan"}

\* codigo = str(row["Código"])    /    codigo_raw = str(row.get("código", "")).strip()
VendCodigo(vv, row) ==
    IF vv = "comissao" THEN PyStr(row.codigo) ELSE Strip(PyStr(row.codigo))

\* "Filial:" in codigo    /    "filial:" in codigo_raw.lower()
IsVOpenRow(vv, row) ==
    IF vv = "comissao" THEN Contains(VendCodigo(vv, row), sFilial)
    ELSE Contains(Lower(VendCodigo(vv, row)), litFilial)

\* elif codigo.isnumeric()    /    if codigo_raw.isdigit()
IsVDetailRow(vv, row) == ~IsVOpenRow(vv, row) /\ IsDigits(VendCodigo(vv, row))

\* float(s) succeeds with a finite value: digits, with an optional fraction
IsFloatText(s) ==
    \/ IsDigits(s)
    \/ \E i \in 1..Len(s) :
        /\ s[i] = "."
        /\ Len(s) > 1
        /\ \A k \in 1..Len(s) : k # i => s[k] \in DigitSet

\* int(float(s)) for such a text
FloatTextToInt(s) ==
    IF IsDigits(s) THEN StrToInt(s)
    ELSE LET i == CHOOSE k \in 1..Len(s) : s[k] = "." IN StrToInt(SubSeq(s, 1, i - 1))

\* the try/except around f"{int(float(current_filial)):02d}"
FilialFormatted(current_filial) ==
    IF IsFloatText(Strip(current_filial.s))
    THEN Zfill(IntToStr(FloatTextToInt(Strip(current_filial.s))), 2)
    ELSE current_filial.s

\* mutant: a later 'Filial:' row does not replace an identifier already captured
VendOpen_KeepsFirst(vv, st, row) ==
    IF Truthy(st.filial) THEN st
    ELSE IF vv = "comissao"
    THEN [st EXCEPT !.filial = StrV(Strip(PyStr(row.vendedor)))]
    ELSE [st EXCEPT !.filial = IF NotNa(row.unnamed3)
                               THEN StrV(Strip(PyStr(row.unnamed3)))
                               ELSE NoneV]

\* the group-open branch of either loop
VendOpen(vv, st, row) ==
    IF vv = "comissao"
    THEN [st EXCEPT !.filial = StrV(Strip(PyStr(row.vendedor)))]
    ELSE [st EXCEPT !.filial = IF NotNa(row.unnamed3)
                               THEN StrV(Strip(PyStr(row.unnamed3)))
                               ELSE NoneV]

\* mutant: the `if not filial: continue` guard is missing
VendDetail_NoGuard(vv, st, row) ==
    [st EXCEPT !.resultados =
        Append(@, [Codigo |-> VendCodigo(vv, row),
                   Filial |-> PyStr(st.filial),
                   Colaborador |-> row.vendedor,
                   Valor |-> row.valor])]

\* the numeric-Código branch of either loop
VendDetail(vv, st, row) ==
    IF ~Truthy(st.filial) THEN st
    ELSE IF vv = "comissao"
    THEN [st EXCEPT !.resultados =
            Append(@, [Codigo |-> VendCodigo(vv, row),
                       Filial |-> st.filial.s,
                       Colaborador |-> row.vendedor,
                       Valor |-> row.valor])]
    ELSE [st EXCEPT !.resultados =
            Append(@, [Codigo |-> VendCodigo(vv, row),
                       Filial |-> FilialFormatted(st.filial),
                       Colaborador |-> IF NotNa(row.vendedor) THEN row.vendedor
                                       ELSE StrV(<<>>),
                       Valor |-> IF NotNa(row.valor) THEN row.valor ELSE StrV(<<>>)])]

VendStep(vv, st, row) ==
    IF IsVOpenRow(vv, row) THEN VendOpen(vv, st, row)
    ELSE IF IsVDetailRow(vv, row) THEN VendDetail(vv, st, row)
    ELSE st

VendState == [filial |-> filial, resultados |-> resultados]

ScanVendRow ==
    /\ vstatus = "scanning"
    /\ vnrows < MaxVRows
    /\ \E row \in VSheetRows :
        LET st == VendStep(vvariant, VendState, row)
        IN /\ vnrows' = vnrows + 1
           /\ filial' = st.filial
           /\ resultados' = st.resultados
           /\ v_last_row' = row
           /\ v_open_row' = IF IsVOpenRow(vvariant, row) THEN row ELSE v_open_row
           /\ v_details' = IF IsVDetailRow(vvariant, row) THEN v_details + 1
                           ELSE v_details
    /\ UNCHANGED <<vvariant, vstatus, result_df, filialVars, filialHist, resVars, calcVars>>

\* result_df["Filial"].astype(int).astype(str).str.zfill(2) succeeds on every record
AllFilialInt(rs) == \A i \in 1..Len(rs) : IsDigits(rs[i].Filial)

\* after the loop: the emptiness check and, for commissions, the Filial formatting
FinishVendScan ==
    /\ vstatus = "scanning"
    /\ vnrows >= 1
    /\ IF resultados = <<>>
       THEN vstatus' = "raised" /\ result_df' = result_df
       ELSE IF vvariant = "vendedor"
       THEN vstatus' = "returned" /\ result_df' = resultados
       ELSE IF ~AllFilialInt(resultados)
       THEN vstatus' = "raised" /\ result_df' = result_df
       ELSE /\ vstatus' = "returned"
            /\ result_df' = [i \in 1..Len(resultados) |->
                    [resultados[i] EXCEPT
                        !.Filial = Zfill(IntToStr(StrToInt(@)), 2)]]
    /\ UNCHANGED <<vvariant, vnrows, filial, resultados, v_last_row, v_open_row,
                   v_details, filialVars, filialHist, resVars, calcVars>>

VendIdle ==
    /\ vvariant = "none" /\ vnrows = 0 /\ filial = NoneV /\ resultados = <<>>
    /\ vstatus = "off" /\ result_df = <<>>
    /\ v_last_row = NoVRow /\ v_open_row = NoVRow /\ v_details = 0

CpfIdle == cpf_vals = <<>>

CombIdle ==
    /\ sci_in = <<>> /\ trier_in = <<>> /\ sci_df = <<>> /\ trier_df = <<>>
    /\ merged_df = <<>> /\ final_df = <<>> /\ cstatus = "off" /\ calc_exit = "none"

ProjIdle == wdf = <<>> /\ values = <<>> /\ wstatus = "off"

UploadIdle ==
    /\ uvariant = "none" /\ worksheet = <<>> /\ upload_rows = 0 /\ outcomes = <<>>
    /\ ops = <<>> /\ ustatus = "off" /\ uerror = "none"

SciIdle ==
    /\ csv_files = <<>> /\ file_idx = 0 /\ all_data = <<>> /\ merged = <<>>
    /\ input_folder = <<>> /\ mstatus = "off"

NameIdle == fname = <<>> /\ fextract = [status |-> "none", filial |-> <<>>]

RunIdle ==
    /\ run_idx = 0 /\ downloaded_files = <<>> /\ attempted = <<>> /\ run_status = "off"

ExtIdle == UploadIdle /\ SciIdle /\ NameIdle /\ RunIdle

CalcIdle == CpfIdle /\ CombIdle /\ ProjIdle /\ ExtIdle

ResIdle ==
    /\ columns = <<>> /\ search_terms = <<>> /\ target_name = <<>>
    /\ out_columns = <<>> /\ matched = 0 /\ warned = FALSE /\ rstatus = "off"

FilialIdle ==
    /\ variant = "none" /\ nrows = 0 /\ filial_number = NoneV
    /\ faturamento_hb = NoneV /\ data = <<>> /\ status = "off" /\ df = <<>>
    /\ main_result = "none"
    /\ last_row = NoRow /\ open_row = NoRow /\ last_marker = NoRow
    /\ hb_since_open = NoneV /\ hb_since_emit = {} /\ shadow = FilialInit
    /\ n_open = 0 /\ n_close = 0

(***************************************************************************)
(* The column resolver DataCombiner._find_and_rename_column, on the column *)
(* labels of the DataFrame (rename never touches the cells).               *)
(***************************************************************************)
nCodigo == <<"C", "ó", "d", "i", "g", "o">>
nCODIGOplain == <<"C", "O", "D", "I", "G", "O">>
nCODIGO == <<"C", "Ó", "D", "I", "G", "O">>
nNome == <<"N", "o", "m", "e">>
nCod == <<"C", "o", "d">>
tcodigo == <<"c", "ó", "d", "i", "g", "o">>
tcodigoplain == <<"c", "o", "d", "i", "g", "o">>
tNOME == <<"N", "O", "M", "E">>

ColumnNames == {nCodigo, nCODIGOplain, nCODIGO, nNome, nCod}
TermTexts == {tcodigo, tcodigoplain, tNOME}
TargetNames == {nCodigo, nNome}

SeqsUpTo(S, lo, hi) == UNION {[1..n -> S] : n \in lo..hi}

\* mutant: the column label is not lower-cased
TermMatches_CaseSensitive(term, col) == Contains(col, Lower(term))

\* `term.lower() in col.lower()`
TermMatches(term, col) == Contains(Lower(col), Lower(term))

\* mutant: the header is scanned once, each column tried against every term
FindColumn_ColumnsFirst(cols, terms, ti) ==
    LET hits == {i \in 1..Len(cols) :
                    \E t \in ti..Len(terms) : TermMatches(terms[t], cols[i])}
    IN IF hits # {} THEN CHOOSE i \in hits : \A j \in hits : i <= j ELSE 0

\* the nested loops: index of the column at which they return, 0 if they run out
RECURSIVE FindColumn(_, _, _)
FindColumn(cols, terms, ti) ==
    IF ti > Len(terms) THEN 0
    ELSE LET hits == {i \in 1..Len(cols) : TermMatches(terms[ti], cols[i])}
         IN IF hits # {} THEN CHOOSE i \in hits : \A j \in hits : i <= j
            ELSE FindColumn(cols, terms, ti + 1)

\* df.rename(columns={col: target_name}): every column labelled col is relabelled
RenameColumn(cols, col, target) ==
    [i \in 1..Len(cols) |-> IF cols[i] = col THEN target ELSE cols[i]]

FindAndRenameColumn(cols, terms, target) ==
    LET m == FindColumn(cols, terms, 1)
    IN [matched |-> m,
        warned |-> m = 0,
        columns |-> IF m = 0 \/ cols[m] = target THEN cols
                    ELSE RenameColumn(cols, cols[m], target)]

ResolveColumn ==
    /\ rstatus = "input"
    /\ LET r == FindAndRenameColumn(columns, search_terms, target_name)
       IN /\ matched' = r.matched
          /\ warned' = r.warned
          /\ out_columns' = r.columns
    /\ rstatus' = "done"
    /\ UNCHANGED <<columns, search_terms, target_name, filialVars, filialHist, vendVars, calcVars>>

InitRes ==
    /\ columns \in SeqsUpTo(ColumnNames, 1, MaxCols)
    /\ search_terms \in SeqsUpTo(TermTexts, 0, MaxTerms)
    /\ target_name \in TargetNames
    /\ out_columns = columns
    /\ matched = 0
    /\ warned = FALSE
    /\ rstatus = "input"
    /\ FilialIdle
    /\ VendIdle
    /\ CalcIdle

NextRes == ResolveColumn

SpecRes == InitRes /\ [][NextRes]_vars

InitVend ==
    /\ vvariant \in {"comissao", "vendedor"}
    /\ vnrows = 0
    /\ filial = NoneV
    /\ resultados = <<>>
    /\ vstatus = "scanning"
    /\ result_df = <<>>
    /\ v_last_row = NoVRow
    /\ v_open_row = NoVRow
    /\ v_details = 0
    /\ FilialIdle
    /\ ResIdle
    /\ CalcIdle

NextVend == ScanVendRow \/ FinishVendScan

SpecVend == InitVend /\ [][NextVend]_vars

InitFilial ==
    /\ variant \in {"read", "ready"}
    /\ nrows = 0
    /\ filial_number = NoneV
    /\ faturamento_hb = NoneV
    /\ data = <<>>
    /\ status = "scanning"
    /\ df = <<>>
    /\ main_result = "none"
    /\ last_row = NoRow
    /\ open_row = NoRow
    /\ last_marker = NoRow
    /\ hb_since_open = NoneV
    /\ hb_since_emit = {}
    /\ shadow = FilialInit
    /\ n_open = 0
    /\ n_close = 0
    /\ VendIdle
    /\ ResIdle
    /\ CalcIdle

NextFilial == ScanFilialRow \/ FinishFilialScan \/ FilialMain

SpecFilial == InitFilial /\ [][NextFilial]_vars

(***************************************************************************)
(* Claims about the filial-totals scan.                                    *)
(***************************************************************************)
Scanned == nrows' = nrows + 1
Emitted == Len(data') > Len(data)
NewRecord == data'[Len(data')]
GoodOpenRow(v, r) == IsOpenRow(v, r) /\ Truthy(r.next) /\ ~SplitEmpty(PyStr(r.next))

\* a string left-padded with "0" to width 2
PadLeft2(s) == IF Len(s) >= 2 THEN s ELSE IF Len(s) = 1 THEN <<"0">> \o s ELSE <<"0", "0">>

(***************************************************************************)
(* C1: a 'Total Filial' row met while an identifier is captured emits      *)
(* exactly one record: Filial is the captured identifier left-padded with  *)
(* zeros to width 2, Faturamento HB the captured auxiliary value (None if  *)
(* none), and the three other values are read from that close row.         *)
(***************************************************************************)
C1_CloseEmitsOneRecord ==
    [][(Scanned /\ IsCloseRow(variant, last_row') /\ Truthy(filial_number))
        => data' = Append(data, [Filial |-> PadLeft2(filial_number.s),
                                 FaturamentoHB |-> faturamento_hb,
                                 CustoTotal |-> last_row'.total_vlr_custo,
                                 FaturamentoTotal |-> last_row'.vlr_descto,
                                 TicketMedio |-> last_row'.ticket_medio])]_vars

\* Filial: 5, 8000 (1000), Total Filial 05 has emitted ("05", 1000, 600, 50, 20)
C1_Witness ==
    /\ nrows = 4
    /\ IsCloseRow(variant, last_row)
    /\ data = <<[Filial |-> <<"0", "5">>, FaturamentoHB |-> IntV(1000),
                 CustoTotal |-> IntV(600), FaturamentoTotal |-> IntV(50),
                 TicketMedio |-> IntV(20)]>>

(***************************************************************************)
(* C2: an emission leaves the scan Idle with the auxiliary value cleared;  *)
(* a second 'Total Filial' row with no 'Filial:' row in between emits      *)
(* nothing; no record carries an auxiliary value captured before the       *)
(* previous emission.                                                      *)
(***************************************************************************)
C2_Step ==
    /\ Emitted => (filial_number' = NoneV /\ faturamento_hb' = NoneV)
    /\ (Scanned /\ IsCloseRow(variant, last_row') /\ IsCloseRow(variant, last_marker))
        => data' = data
    /\ Emitted => NewRecord.FaturamentoHB \in ({NoneV} \cup hb_since_emit)

C2_ResetAfterEmit == [][C2_Step]_vars

\* two groups closed, the first with an auxiliary value, the second without
C2_Witness ==
    /\ Len(data) = 2
    /\ data[1].FaturamentoHB = IntV(1000)
    /\ data[2].FaturamentoHB = NoneV
    /\ filial_number = NoneV
    /\ faturamento_hb = NoneV

(***************************************************************************)
(* C3: a 'Total Filial' row with no identifier captured emits nothing and  *)
(* does not raise; the scan goes on and a well-formed group that follows   *)
(* is still emitted.                                                       *)
(***************************************************************************)
C3_Step ==
    /\ (Scanned /\ IsCloseRow(variant, last_row') /\ ~Truthy(filial_number))
        => (data' = data /\ status' = "scanning" /\ filial_number' = filial_number)
    /\ (Scanned /\ IsCloseRow(variant, last_row') /\ GoodOpenRow(variant, last_marker))
        => Len(data') = Len(data) + 1

C3_OrphanCloseDropped == [][C3_Step]_vars

\* an orphan close row first, then a group that is emitted
C3_Witness ==
    /\ nrows = 4
    /\ n_close = 2
    /\ n_open = 1
    /\ Len(data) = 1
    /\ IsCloseRow(variant, last_row)
    /\ GoodOpenRow(variant, open_row)
    /\ shadow.data = data
    /\ hb_since_emit = {}
    /\ status = "scanning"
    /\ data[1].FaturamentoHB = NoneV

(***************************************************************************)
(* C4: the Faturamento HB of every emitted record is the value of the      *)
(* latest '8000' row after the 'Filial:' row that opened the record's      *)
(* group, None if there is none; the '8000' row emits nothing and leaves   *)
(* the identifier unchanged.                                               *)
(***************************************************************************)
C4_Step ==
    /\ Emitted => NewRecord.FaturamentoHB = hb_since_open
    /\ (Scanned /\ IsSentinelRow(variant, last_row'))
        => (data' = data /\ filial_number' = filial_number)

C4_HBFromOwnGroup == [][C4_Step]_vars

(***************************************************************************)
(* C5: a 'Filial:' row never emits, always leaves the scan InGroup with    *)
(* the identifier of its adjacent cell, and the Filial of every record     *)
(* derives from the most recent 'Filial:' row before its close row.        *)
(***************************************************************************)
C5_Step ==
    /\ (Scanned /\ IsOpenRow(variant, last_row'))
        => /\ data' = data
           /\ status' = "scanning"
           /\ Truthy(last_row'.next)
           /\ filial_number' = StrV(SplitFirst(PyStr(last_row'.next)))
    /\ Emitted
        => /\ Truthy(open_row.next)
           /\ NewRecord.Filial = PadLeft2(SplitFirst(PyStr(open_row.next)))

C5_OpenAlwaysCaptures == [][C5_Step]_vars

(***************************************************************************)
(* C6: a scan that ends with zero emitted records is a hard failure: no    *)
(* empty table is returned and the run does not end as a success or a      *)
(* silent no-op.                                                           *)
(***************************************************************************)
C6_EmptyScanIsFailure ==
    /\ (status = "returned") => (df # <<>>)
    /\ (data = <<>> /\ main_result # "none") => (main_result = "exit1")

(***************************************************************************)
(* C9: a row that is neither a 'Filial:', an '8000' nor a 'Total Filial'   *)
(* row changes neither the identifier, nor the auxiliary value, nor the    *)
(* records; deleting all such rows from the input leaves the emitted       *)
(* record sequence unchanged (shadow scans the input without them).        *)
(***************************************************************************)
C9_Step ==
    (Scanned /\ IsInertRow(variant, last_row'))
        => UNCHANGED <<filial_number, faturamento_hb, data, status>>

C9_InertRowsIgnored == [][C9_Step]_vars /\ [](shadow.data = data)

\* an inert row was scanned inside the second group, after its '8000' row
C9_Witness ==
    /\ nrows = 6
    /\ Len(data) = 1
    /\ IsInertRow(variant, last_row)
    /\ last_row # NoRow
    /\ filial_number = StrV(<<"1", "2">>)
    /\ faturamento_hb = IntV(2000)
    /\ shadow.filial_number = filial_number
    /\ shadow.data = data

(***************************************************************************)
(* Claims about the per-employee scans.                                    *)
(***************************************************************************)
VScanned == vnrows' = vnrows + 1

\* the identifier text a 'Filial:' row carries, empty if it carries none
IdentText(vv, r) ==
    IF vv = "comissao" THEN Strip(PyStr(r.vendedor))
    ELSE IF NotNa(r.unnamed3) THEN Strip(PyStr(r.unnamed3)) ELSE <<>>

HasIdent(vv, r) == r # NoVRow /\ IdentText(vv, r) # <<>>

\* a tag names an identifier: the same text, or the same number in two digits
TagMatches(tag, id) ==
    \/ tag = id
    \/ IsFloatText(id) /\ IsDigits(tag) /\ Len(tag) >= 2 /\ StrToInt(tag) = FloatTextToInt(id)

C7_EmitsTagged ==
    /\ Len(resultados') = Len(resultados) + 1
    /\ SubSeq(resultados', 1, Len(resultados)) = resultados
    /\ resultados'[Len(resultados')].Codigo = Strip(PyStr(v_last_row'.codigo))
    /\ TagMatches(resultados'[Len(resultados')].Filial, IdentText(vvariant, v_open_row))

(***************************************************************************)
(* C7 as stated: every purely numeric Código row that follows a            *)
(* group-open row emits exactly one record immediately, in input order,    *)
(* tagged with the identifier of the most recent 'Filial:' row; a marker   *)
(* row is never also a detail row.                                         *)
(***************************************************************************)
C7_Original_Step ==
    /\ (VScanned /\ IsVDetailRow(vvariant, v_last_row') /\ v_open_row # NoVRow)
        => C7_EmitsTagged
    /\ (VScanned /\ IsVOpenRow(vvariant, v_last_row')) => resultados' = resultados

C7_Amended_Step ==
    /\ (VScanned /\ IsVDetailRow(vvariant, v_last_row') /\ HasIdent(vvariant, v_open_row))
        => C7_EmitsTagged
    /\ (VScanned /\ ~IsVDetailRow(vvariant, v_last_row')) => resultados' = resultados

C8_Step ==
    (VScanned /\ IsVDetailRow(vvariant, v_last_row') /\ ~HasIdent(vvariant, v_open_row))
        => (resultados' = resultados /\ vstatus' = "scanning" /\ filial' = filial)

C8_IdleDetailDropped == [][C8_Step]_vars

\* a detail row dropped before any group, then a group whose detail row is emitted
C8_Witness ==
    /\ vnrows = 3
    /\ v_details = 2
    /\ Len(resultados) = 1
    /\ IsVDetailRow(vvariant, v_last_row)
    /\ vstatus = "scanning"

(***************************************************************************)
(* Claims about the column resolver.                                       *)
(***************************************************************************)
FoldChar(c) ==
    CASE LowerChar(c) = "ó" -> "o" [] LowerChar(c) = "á" -> "a" [] OTHER -> LowerChar(c)

\* case folding plus removal of diacritics
Fold(s) == [i \in 1..Len(s) |-> FoldChar(s[i])]

FoldContains(col, term) == Contains(Fold(col), Fold(term))
CaseContains(col, term) == Contains(Lower(col), Lower(term))

Resolved(Hit(_, _)) ==
    /\ matched \in 1..Len(columns)
    /\ \E t \in 1..Len(search_terms) : Hit(columns[matched], search_terms[t])
    /\ out_columns[matched] = target_name
    /\ ~warned

NotFound == matched = 0 /\ warned /\ out_columns = columns

SomeHit(Hit(_, _)) ==
    \E i \in 1..Len(columns), t \in 1..Len(search_terms) :
        Hit(columns[i], search_terms[t])

C10_WitnessNotFound ==
    /\ rstatus = "done"
    /\ columns = <<nCod, nCODIGOplain>>
    /\ search_terms = <<tcodigo, tNOME>>
    /\ warned
    /\ out_columns = columns

(***************************************************************************)
(* C11: candidate terms are tried in the caller's priority order and the   *)
(* whole header is scanned for each term: the resolved column is the       *)
(* leftmost column containing the earliest term that matches any column,   *)
(* even when a lower-priority term matches a column further left.          *)
(***************************************************************************)
TermHits(t) == {i \in 1..Len(columns) : CaseContains(columns[i], search_terms[t])}

EarliestTerm ==
    CHOOSE t \in 1..Len(search_terms) :
        /\ TermHits(t) # {}
        /\ \A u \in 1..(t - 1) : TermHits(u) = {}

C11_EarliestTermLeftmostColumn ==
    (rstatus = "done" /\ SomeHit(CaseContains))
        => /\ matched \in TermHits(EarliestTerm)
           /\ \A i \in TermHits(EarliestTerm) : matched <= i

\* the second term matches column 1, the first term only column 2: column 2 wins
C11_Witness ==
    /\ rstatus = "done"
    /\ Len(search_terms) = 2
    /\ matched = 2
    /\ EarliestTerm = 1
    /\ 1 \in TermHits(2)
    /\ 1 \notin TermHits(1)
    /\ out_columns[2] = target_name
    /\ out_columns[1] = columns[1]

(***************************************************************************)
(* DataCombiner._clean_cpf on one cell of the CPF column:                  *)
(* astype(str).str.replace(r'\D', '', regex=True).  On the alphabet of    *)
(* the model \D is every character that is not one of 0..9.                *)
(***************************************************************************)
MaxCpfLen == 3
MaxCleanings == 2

RegexDigits == DigitSet
CpfAlphabet == {"1", "2", ".", "-", " "}
sCpfExample == <<"1", "2", "3", ".", "4", "5", "6", ".", "7", "8", "9", "-", "0", "1">>
sCpfExampleClean == <<"1", "2", "3", "4", "5", "6", "7", "8", "9", "0", "1">>
CpfInputs == SeqsUpTo(CpfAlphabet, 0, MaxCpfLen) \cup {sCpfExample}

\* mutant: only the first non-digit character is removed
RECURSIVE RemoveNonDigits_FirstOnly(_)
RemoveNonDigits_FirstOnly(s) ==
    IF s = <<>> THEN <<>>
    ELSE IF Head(s) \in RegexDigits THEN <<Head(s)>> \o RemoveNonDigits_FirstOnly(Tail(s))
    ELSE Tail(s)

\* re.sub(r'\D', '', s)
RECURSIVE RemoveNonDigits(_)
RemoveNonDigits(s) ==
    IF s = <<>> THEN <<>>
    ELSE IF Head(s) \in RegexDigits THEN <<Head(s)>> \o RemoveNonDigits(Tail(s))
    ELSE RemoveNonDigits(Tail(s))

\* one cell of df[cpf_col].astype(str).str.replace(r'\D', '', regex=True)
CleanCpfCell(c) == RemoveNonDigits(PyStr(c))

CleanCpfValue ==
    /\ Len(cpf_vals) \in 1..MaxCleanings
    /\ cpf_vals' = Append(cpf_vals, CleanCpfCell(StrV(cpf_vals[Len(cpf_vals)])))
    /\ UNCHANGED <<filialVars, filialHist, vendVars, resVars, combVars, projVars, extVars>>

InitCpf ==
    /\ cpf_vals \in {<<x>> : x \in CpfInputs}
    /\ FilialIdle /\ VendIdle /\ ResIdle /\ CombIdle /\ ProjIdle /\ ExtIdle

NextCpf == CleanCpfValue

SpecCpf == InitCpf /\ [][NextCpf]_vars

(***************************************************************************)
(* C12: key normalization removes every non-digit character and keeps the  *)
(* digits in order, and is idempotent; "123.456.789-01" becomes            *)
(* "12345678901" and "" stays "".                                          *)
(***************************************************************************)
IsDigitChar(c) == c \in RegexDigits

C12_CleanCpfIdempotent ==
    /\ Len(cpf_vals) >= 2 => cpf_vals[2] = SelectSeq(cpf_vals[1], IsDigitChar)
    /\ Len(cpf_vals) >= 3 => cpf_vals[3] = cpf_vals[2]
    /\ (Len(cpf_vals) >= 2 /\ cpf_vals[1] = sCpfExample) => cpf_vals[2] = sCpfExampleClean
    /\ (Len(cpf_vals) >= 2 /\ cpf_vals[1] = <<>>) => cpf_vals[2] = <<>>

\* the example of the claim, cleaned twice
C12_Witness == cpf_vals = <<sCpfExample, sCpfExampleClean, sCpfExampleClean>>

\* a value with two separators, cleaned twice
C12_WitnessSeparators ==
    /\ Len(cpf_vals) = 3
    /\ cpf_vals[1] = <<"1", ".", "-">>
    /\ cpf_vals[3] = <<"1">>

(***************************************************************************)
(* DataCombiner.combine_data.  A DataFrame is a record of its column       *)
(* labels and its rows (each row a sequence of cells aligned with the      *)
(* labels).  The worksheets are read by get_sheet_data, so every cell is a *)
(* str; the headers of the model keep their labels distinct through the    *)
(* renamings.                                                              *)
(***************************************************************************)
MaxSciRows == 2
MaxTrierRows == 2

lFilial == <<"F", "i", "l", "i", "a", "l">>
lCPF == <<"C", "P", "F">>
lCargoAtual == <<"C", "a", "r", "g", "o", " ", "a", "t", "u", "a", "l">>
lFuncionario == <<"F", "u", "n", "c", "i", "o", "n", "á", "r", "i", "o">>
lcpf == <<"c", "p", "f">>
lCodFilial == <<"C", "o", "d", " ", "F", "i", "l", "i", "a", "l">>
lCargo == <<"C", "a", "r", "g", "o">>
lNrCPF == <<"N", "r", " ", "C", "P", "F">>
tfilial == <<"f", "i", "l", "i", "a", "l">>
tcargoatual == <<"c", "a", "r", "g", "o", " ", "a", "t", "u", "a", "l">>
tcargo == <<"c", "a", "r", "g", "o">>
tfuncionario == <<"f", "u", "n", "c", "i", "o", "n", "á", "r", "i", "o">>
tfuncionarioplain == <<"f", "u", "n", "c", "i", "o", "n", "a", "r", "i", "o">>
tnome == <<"n", "o", "m", "e">>

FinalColumns == <<lFilial, nCodigo, lCPF, nNome, lCargoAtual>>

Frame(cols, rows) == [cols |-> cols, rows |-> rows]

\* pd.DataFrame(columns=['Filial', 'Código', 'CPF', 'Nome', 'Cargo atual'])
EmptyFrame_MergeOrder == Frame(<<lFilial, lCPF, lCargoAtual, nCodigo, nNome>>, <<>>)

EmptyFrame == Frame(FinalColumns, <<>>)

\* df.empty
IsEmptyFrame(f) == f.cols = <<>> \/ f.rows = <<>>

HasColumn(f, label) == \E i \in 1..Len(f.cols) : f.cols[i] = label
ColumnIndex(f, label) == CHOOSE i \in 1..Len(f.cols) : f.cols[i] = label
\* df[label] as the sequence of its cells
Column(f, label) == [k \in 1..Len(f.rows) |-> f.rows[k][ColumnIndex(f, label)]]

\* the header layouts of worksheet user_sci: label and kind of each column
SciLayouts ==
    { <<[label |-> lFilial, kind |-> "filial"], [label |-> lCPF, kind |-> "cpf"],
        [label |-> lCargoAtual, kind |-> "cargo"]>>,
      <<[label |-> nNome, kind |-> "other"], [label |-> lcpf, kind |-> "cpf"],
        [label |-> lCodFilial, kind |-> "filial"], [label |-> lCargo, kind |-> "cargo"]>>,
      <<[label |-> lFilial, kind |-> "filial"], [label |-> lCargoAtual, kind |-> "cargo"]>>,
      <<[label |-> lFilial, kind |-> "filial"], [label |-> lCPF, kind |-> "cpf"]>> }

\* the header layouts of worksheet user_trier
TrierLayouts ==
    { <<[label |-> nCodigo, kind |-> "codigo"], [label |-> lCPF, kind |-> "cpf"],
        [label |-> lFuncionario, kind |-> "nome"]>>,
      <<[label |-> nNome, kind |-> "nome"], [label |-> nCODIGOplain, kind |-> "codigo"],
        [label |-> lNrCPF, kind |-> "cpf"]>>,
      <<[label |-> nCodigo, kind |-> "codigo"], [label |-> lFuncionario, kind |-> "nome"]>> }

\* (Filial, CPF) of a row of user_sci, (Código, CPF) of a row of user_trier
SciPairs ==
    { <<<<"2">>, <<"1", "-", "1">>>>, <<<<"1", "0">>, <<"1", "-", "1">>>>,
      <<<<"1", "0">>, <<"2">>>>, <<<<"2">>, <<"-">>>> }
TrierPairs ==
    { <<<<"3">>, <<"1", "1">>>>, <<<<"2", "0">>, <<"1", "1">>>>,
      <<<<"3">>, <<"3">>>>, <<<<"2", "0">>, <<>>>> }

\* the cell of row k under a column of the given kind; p is the drawn pair
SheetCell(kind, k, p) ==
    CASE kind = "filial" -> StrV(p[1])
      [] kind = "codigo" -> StrV(p[1])
      [] kind = "cpf" -> StrV(p[2])
      [] kind = "cargo" -> StrV(<<"g", Digits[k + 1]>>)
      [] kind = "nome" -> StrV(<<"n", Digits[k + 1]>>)
      [] OTHER -> StrV(<<"x">>)

\* pd.DataFrame(data[1:], columns=data[0])
SheetFrame(layout, pairs) ==
    Frame([i \in 1..Len(layout) |-> layout[i].label],
          [k \in 1..Len(pairs) |->
              [i \in 1..Len(layout) |-> SheetCell(layout[i].kind, k, pairs[k])]])

SciSheets ==
    {SheetFrame(l, ps) : l \in SciLayouts, ps \in SeqsUpTo(SciPairs, 0, MaxSciRows)}
TrierSheets ==
    {SheetFrame(l, ps) : l \in TrierLayouts, ps \in SeqsUpTo(TrierPairs, 0, MaxTrierRows)}

\* _clean_cpf: the first column whose label contains 'cpf' is cleaned and
\* relabelled 'CPF'; without such a column the frame is returned as it is
CleanCpf(f) ==
    LET hits == {i \in 1..Len(f.cols) : Contains(Lower(f.cols[i]), lcpf)}
    IN IF hits = {} THEN f
       ELSE LET c == CHOOSE i \in hits : \A j \in hits : i <= j
            IN Frame(IF f.cols[c] = lCPF THEN f.cols ELSE RenameColumn(f.cols, f.cols[c], lCPF),
                     [k \in 1..Len(f.rows) |->
                         [i \in 1..Len(f.cols) |->
                             IF i = c THEN StrV(CleanCpfCell(f.rows[k][i]))
                             ELSE f.rows[k][i]]])

\* _find_and_rename_column on a frame
FindAndRename(f, terms, target) ==
    Frame(FindAndRenameColumn(f.cols, terms, target).columns, f.rows)

\* needed = [col for col in wanted if col in df.columns]; df = df[needed]
SelectColumns(f, wanted) ==
    LET needed == SelectSeq(wanted, LAMBDA c : HasColumn(f, c))
    IN Frame(needed,
             [k \in 1..Len(f.rows) |->
                 [i \in 1..Len(needed) |-> f.rows[k][ColumnIndex(f, needed[i])]]])

RequiredSci == <<lFilial, lCPF, lCargoAtual>>
RequiredTrier == <<nCodigo, lCPF, lFuncionario>>

PrepareSci(f) ==
    SelectColumns(
        FindAndRename(FindAndRename(CleanCpf(f), <<tfilial>>, lFilial),
                      <<tcargoatual, tcargo>>, lCargoAtual),
        RequiredSci)

PrepareTrier(f) ==
    SelectColumns(
        FindAndRename(FindAndRename(CleanCpf(f), <<tcodigo, tcodigoplain>>, nCodigo),
                      <<tfuncionario, tfuncionarioplain, tnome>>, lFuncionario),
        RequiredTrier)

\* mutant: the CPF column is not among the columns validated
MissingColumns_IgnoresCPF(f, required) ==
    SelectSeq(required, LAMBDA c : c # lCPF /\ ~HasColumn(f, c))

\* [col for col in required if col not in df.columns]
MissingColumns(f, required) == SelectSeq(required, LAMBDA c : ~HasColumn(f, c))

\* mutant: rows with an empty CPF are kept
FilterEmptyCpf_KeepsAll(f) == f

\* df[df['CPF'].astype(str).str.strip() != '']
FilterEmptyCpf(f) ==
    Frame(f.cols,
          SelectSeq(f.rows, LAMBDA r : Strip(PyStr(r[ColumnIndex(f, lCPF)])) # <<>>))

\* set(df['CPF'])
CpfSet(f) == {f.rows[k][ColumnIndex(f, lCPF)] : k \in 1..Len(f.rows)}

\* the cells of a row without its CPF cell
DropCpf(f, r) ==
    LET keep == SelectSeq([i \in 1..Len(f.cols) |-> i], LAMBDA i : f.cols[i] # lCPF)
    IN [i \in 1..Len(keep) |-> r[keep[i]]]

\* mutant: every left row is paired with every right row
JoinRow_Cross(l, r, lrow) ==
    [k \in 1..Len(r.rows) |-> lrow \o DropCpf(r, r.rows[k])]

\* the rows a left row contributes: one per right row with the same CPF
JoinRow(l, r, lrow) ==
    LET hits == SelectSeq(r.rows,
                    LAMBDA x : x[ColumnIndex(r, lCPF)] = lrow[ColumnIndex(l, lCPF)])
    IN [k \in 1..Len(hits) |-> lrow \o DropCpf(r, hits[k])]

RECURSIVE JoinRows(_, _, _)
JoinRows(l, r, k) ==
    IF k > Len(l.rows) THEN <<>>
    ELSE JoinRow(l, r, l.rows[k]) \o JoinRows(l, r, k + 1)

\* pd.merge(sci_df, trier_df, on='CPF', how='inner'): left rows in order, each
\* with its matching right rows in order
MergeFrames(l, r) ==
    Frame(l.cols \o SelectSeq(r.cols, LAMBDA c : c # lCPF), JoinRows(l, r, 1))

\* final_df built column by column from merged_df
\* mutant: 'Cargo atual' is copied from the user_trier column 'Funcionário'
BuildFinal_CargoFromTrier(m) ==
    Frame(FinalColumns,
          [k \in 1..Len(m.rows) |->
              <<m.rows[k][ColumnIndex(m, lFilial)], m.rows[k][ColumnIndex(m, nCodigo)],
                m.rows[k][ColumnIndex(m, lCPF)], m.rows[k][ColumnIndex(m, lFuncionario)],
                m.rows[k][ColumnIndex(m, lFuncionario)]>>])

BuildFinal(m) ==
    Frame(FinalColumns,
          [k \in 1..Len(m.rows) |->
              <<m.rows[k][ColumnIndex(m, lFilial)], m.rows[k][ColumnIndex(m, nCodigo)],
                m.rows[k][ColumnIndex(m, lCPF)], m.rows[k][ColumnIndex(m, lFuncionario)],
                m.rows[k][ColumnIndex(m, lCargoAtual)]>>])

\* the clean-up of rows with missing essential values
DropMissing(f) ==
    Frame(f.cols,
          SelectSeq(f.rows,
              LAMBDA r : /\ NotNa(r[1]) /\ NotNa(r[2]) /\ NotNa(r[3])
                         /\ Strip(PyStr(r[3])) # <<>>))

\* mutant: a value that fails numeric parsing sorts before the numbers
NumLess_NaFirst(a, b) ==
    IF b.t = "nan" THEN FALSE ELSE IF a.t = "nan" THEN TRUE ELSE a.n < b.n

\* order of two cells of a pd.to_numeric(errors='coerce') column under
\* sort_values: numbers ascending, NaN after every number
NumLess(a, b) ==
    IF a.t = "nan" THEN FALSE ELSE IF b.t = "nan" THEN TRUE ELSE a.n < b.n

NumEq(a, b) == ~NumLess(a, b) /\ ~NumLess(b, a)

\* sort_values(['Filial_numeric', 'Código_numeric']) compares rows by the pair
RowLess(x, y) ==
    LET fx == ToNumeric(x[1])
        fy == ToNumeric(y[1])
    IN \/ NumLess(fx, fy)
       \/ NumEq(fx, fy) /\ NumLess(ToNumeric(x[2]), ToNumeric(y[2]))

\* x is placed behind every row that is not greater: equal rows keep their order
InsertRow(s, x) ==
    LET pos == Cardinality({i \in 1..Len(s) : ~RowLess(x, s[i])})
    IN SubSeq(s, 1, pos) \o <<x>> \o SubSeq(s, pos + 1, Len(s))

RECURSIVE SortRows(_)
SortRows(rows) ==
    IF rows = <<>> THEN <<>>
    ELSE InsertRow(SortRows(SubSeq(rows, 1, Len(rows) - 1)), rows[Len(rows)])

\* the numeric sort of final_df (the helper columns are added and dropped again)
SortValues(f) == IF IsEmptyFrame(f) THEN f ELSE Frame(f.cols, SortRows(f.rows))

\* lines 135-186: empty checks, cleaning, renaming, selection, validation
PrepareSources ==
    /\ cstatus = "loaded"
    /\ IF IsEmptyFrame(sci_df) \/ IsEmptyFrame(trier_df)
       THEN /\ final_df' = EmptyFrame
            /\ cstatus' = "done"
            /\ UNCHANGED <<sci_df, trier_df>>
       ELSE LET s == PrepareSci(sci_df)
                tr == PrepareTrier(trier_df)
            IN /\ sci_df' = s
               /\ trier_df' = tr
               /\ IF MissingColumns(s, RequiredSci) # <<>>
                     \/ MissingColumns(tr, RequiredTrier) # <<>>
                  THEN final_df' = EmptyFrame /\ cstatus' = "done"
                  ELSE final_df' = final_df /\ cstatus' = "prepared"
    /\ UNCHANGED <<sci_in, trier_in, merged_df, calc_exit>>
    /\ UNCHANGED <<filialVars, filialHist, vendVars, resVars, cpfVars, projVars, extVars>>

\* lines 188-225: the filter of empty CPFs, the statistics and pd.merge; a
\* frame without a 'CPF' column makes df['CPF'] raise KeyError, which the
\* handler of line 284 turns into GoogleSheetsError
MergeSources ==
    /\ cstatus = "prepared"
    /\ IF ~HasColumn(sci_df, lCPF) \/ ~HasColumn(trier_df, lCPF)
       THEN /\ cstatus' = "raised"
            /\ UNCHANGED <<sci_df, trier_df, merged_df, final_df>>
       ELSE LET s == FilterEmptyCpf(sci_df)
                tr == FilterEmptyCpf(trier_df)
            IN /\ sci_df' = s
               /\ trier_df' = tr
               /\ IF CpfSet(s) \cap CpfSet(tr) = {}
                  THEN /\ final_df' = EmptyFrame
                       /\ cstatus' = "done"
                       /\ merged_df' = merged_df
                  ELSE /\ merged_df' = MergeFrames(s, tr)
                       /\ cstatus' = "merged"
                       /\ final_df' = final_df
    /\ UNCHANGED <<sci_in, trier_in, calc_exit>>
    /\ UNCHANGED <<filialVars, filialHist, vendVars, resVars, cpfVars, projVars, extVars>>

\* lines 227-262: the five output columns and the clean-up
BuildFinalFrame ==
    /\ cstatus = "merged"
    /\ final_df' = DropMissing(BuildFinal(merged_df))
    /\ cstatus' = "built"
    /\ UNCHANGED <<sci_in, trier_in, sci_df, trier_df, merged_df, calc_exit>>
    /\ UNCHANGED <<filialVars, filialHist, vendVars, resVars, cpfVars, projVars, extVars>>

\* lines 264-282: the sort and the return
SortFinalFrame ==
    /\ cstatus = "built"
    /\ final_df' = SortValues(final_df)
    /\ cstatus' = "done"
    /\ UNCHANGED <<sci_in, trier_in, sci_df, trier_df, merged_df, calc_exit>>
    /\ UNCHANGED <<filialVars, filialHist, vendVars, resVars, cpfVars, projVars, extVars>>

(***************************************************************************)
(* create_filtered_worksheet (lines 287-344): the rows sent to the         *)
(* worksheet.                                                              *)
(***************************************************************************)
\* for col in required_columns: if col not in df.columns: df[col] = ''
AddMissingColumns(f) ==
    LET missing == MissingColumns(f, FinalColumns)
    IN Frame(f.cols \o missing,
             [k \in 1..Len(f.rows) |-> f.rows[k] \o [i \in 1..Len(missing) |-> StrV(<<>>)]])

\* mutant: the columns are left as they are
ReorderColumns_Keeps(f) == f

\* df = df[required_columns]
ReorderColumns(f) == SelectColumns(f, FinalColumns)

\* df = df.fillna('')
FillNa(f) ==
    Frame(f.cols,
          [k \in 1..Len(f.rows) |->
              [i \in 1..Len(f.cols) |->
                  IF NotNa(f.rows[k][i]) THEN f.rows[k][i] ELSE StrV(<<>>)]])

\* [df.columns.tolist()] + df.values.tolist()
ValuesOf(f) == <<[i \in 1..Len(f.cols) |-> StrV(f.cols[i])]>> \o f.rows

\* the rows written to the worksheet: the headers alone for an empty frame
UploadedValues(f) ==
    IF IsEmptyFrame(f) THEN ValuesOf(EmptyFrame)
    ELSE ValuesOf(FillNa(ReorderColumns(AddMissingColumns(f))))

\* main() of user_calc.py (lines 347-399) after combine_data: a GoogleSheetsError
\* of combine_data gives 1; otherwise the table, empty or not, is uploaded and
\* main returns 0, unless the upload raises GoogleSheetsError, which gives 1
CalcMain ==
    /\ cstatus \in {"done", "raised"}
    /\ calc_exit = "none"
    /\ IF cstatus = "raised"
       THEN calc_exit' = "1" /\ UNCHANGED projVars
       ELSE \E uploaded \in BOOLEAN :
               IF uploaded
               THEN /\ wdf' = final_df
                    /\ values' = UploadedValues(final_df)
                    /\ wstatus' = "uploaded"
                    /\ calc_exit' = "0"
               ELSE calc_exit' = "1" /\ UNCHANGED projVars
    /\ UNCHANGED <<sci_in, trier_in, sci_df, trier_df, merged_df, final_df, cstatus>>
    /\ UNCHANGED <<filialVars, filialHist, vendVars, resVars, cpfVars, extVars>>

InitComb ==
    /\ sci_in \in SciSheets
    /\ trier_in \in TrierSheets
    /\ sci_df = sci_in
    /\ trier_df = trier_in
    /\ merged_df = <<>>
    /\ final_df = <<>>
    /\ cstatus = "loaded"
    /\ calc_exit = "none"
    /\ FilialIdle /\ VendIdle /\ ResIdle /\ CpfIdle /\ ProjIdle /\ ExtIdle

NextComb ==
    PrepareSources \/ MergeSources \/ BuildFinalFrame \/ SortFinalFrame \/ CalcMain

SpecComb == InitComb /\ [][NextComb]_vars

(***************************************************************************)
(* The same run of combine_data on sheets of up to MaxSortRows employees   *)
(* with distinct CPFs present in both worksheets, whose Filial and Código  *)
(* mix numbers of one and two digits with texts.                           *)
(***************************************************************************)
MaxSortRows == 4

SortPairs ==
    { <<<<"1", "0">>, <<"3">>>>, <<<<"2">>, <<"2", "0">>>>, <<<<"2">>, <<"3">>>>,
      <<<<"1">>, <<"3">>>>, <<<<"1">>, <<"x">>>>, <<<<"a", "b", "c">>, <<"3">>>>,
      <<<<"a", "b", "d">>, <<"3">>>>, <<<<"a", "b", "c">>, <<"2", "0">>>> }

SortSci(ps) ==
    Frame(RequiredSci,
          [k \in 1..Len(ps) |->
              <<StrV(ps[k][1]), StrV(<<Digits[k + 1]>>), StrV(<<"g", Digits[k + 1]>>)>>])

SortTrier(ps) ==
    Frame(RequiredTrier,
          [k \in 1..Len(ps) |->
              <<StrV(ps[k][2]), StrV(<<Digits[k + 1]>>), StrV(<<"n", Digits[k + 1]>>)>>])

InitSort ==
    /\ \E ps \in SeqsUpTo(SortPairs, 1, MaxSortRows) :
          sci_in = SortSci(ps) /\ trier_in = SortTrier(ps)
    /\ sci_df = sci_in
    /\ trier_df = trier_in
    /\ merged_df = <<>>
    /\ final_df = <<>>
    /\ cstatus = "loaded"
    /\ calc_exit = "none"
    /\ FilialIdle /\ VendIdle /\ ResIdle /\ CpfIdle /\ ProjIdle /\ ExtIdle

SpecSort == InitSort /\ [][NextComb]_vars

(***************************************************************************)
(* Claims about combine_data.                                              *)
(***************************************************************************)
\* the join-key column of a worksheet: its first column naming the CPF
HasCpfColumn(f) == \E i \in 1..Len(f.cols) : CaseContains(f.cols[i], lcpf)
CpfColumn(f) ==
    CHOOSE i \in 1..Len(f.cols) :
        /\ CaseContains(f.cols[i], lcpf)
        /\ \A j \in 1..(i - 1) : ~CaseContains(f.cols[j], lcpf)

\* the digits of a cell, in order
Normalized(c) == SelectSeq(c.s, IsDigitChar)

\* the normalized CPFs of the rows of a worksheet, the empty one included
AllCpfs(f) ==
    IF HasCpfColumn(f)
    THEN {Normalized(f.rows[k][CpfColumn(f)]) : k \in 1..Len(f.rows)}
    ELSE {}

\* the non-empty normalized CPFs of a worksheet
NormCpfs(f) == AllCpfs(f) \ {<<>>}

CommonCpfs == NormCpfs(sci_in) \cap NormCpfs(trier_in)

\* pd.merge has been executed
Joined == merged_df # <<>>

Returned == cstatus = "done"

OutCpfs == {final_df.rows[k][3].s : k \in 1..Len(final_df.rows)}

\* both worksheets have rows and every column the join needs was resolved
SourcesUsable ==
    /\ \A i \in 1..Len(RequiredSci) : HasColumn(sci_df, RequiredSci[i])
    /\ \A i \in 1..Len(RequiredTrier) : HasColumn(trier_df, RequiredTrier[i])
    /\ sci_in.rows # <<>> /\ trier_in.rows # <<>>

(***************************************************************************)
(* C13: rows whose normalized CPF is empty are removed from both sources   *)
(* before the join: the frames given to pd.merge hold no empty CPF, no     *)
(* merged row has an empty key and no output record has an empty CPF.      *)
(***************************************************************************)
C13_EmptyCpfRemovedBeforeJoin ==
    Joined =>
        /\ \A k \in 1..Len(sci_df.rows) : sci_df.rows[k][ColumnIndex(sci_df, lCPF)].s # <<>>
        /\ \A k \in 1..Len(trier_df.rows) :
              trier_df.rows[k][ColumnIndex(trier_df, lCPF)].s # <<>>
        /\ \A k \in 1..Len(merged_df.rows) :
              merged_df.rows[k][ColumnIndex(merged_df, lCPF)].s # <<>>
        /\ Returned => <<>> \notin OutCpfs

\* both worksheets hold a row without digits in its CPF next to a matching pair
C13_Witness ==
    /\ Returned /\ Joined
    /\ <<>> \in AllCpfs(sci_in)
    /\ <<>> \in AllCpfs(trier_in)
    /\ Len(final_df.rows) = 1
    /\ Len(sci_in.rows) = 2 /\ Len(sci_df.rows) = 1
    /\ Len(trier_in.rows) = 2 /\ Len(trier_df.rows) = 1

C15_OneRecordPerKey ==
    Returned =>
        \A i, j \in 1..Len(final_df.rows) :
            i # j => final_df.rows[i][3] # final_df.rows[j][3]

(***************************************************************************)
(* C16: when the sources have no normalized CPF in common combine_data     *)
(* does not raise: the join is not executed and it returns a zero-row      *)
(* table whose columns are Filial, Código, CPF, Nome, Cargo atual.         *)
(***************************************************************************)
C16_NoCommonKeyEmptySchema ==
    /\ cstatus # "raised"
    /\ CommonCpfs = {} =>
          /\ cstatus \in {"loaded", "prepared", "done"}
          /\ Returned => /\ final_df.rows = <<>>
                         /\ final_df.cols = <<lFilial, nCodigo, lCPF, nNome, lCargoAtual>>

\* two usable worksheets with non-empty but disjoint keys
C16_Witness ==
    /\ Returned
    /\ SourcesUsable
    /\ NormCpfs(sci_in) # {}
    /\ NormCpfs(trier_in) # {}
    /\ CommonCpfs = {}
    /\ final_df.rows = <<>>
    /\ Len(final_df.cols) = 5

\* Filial / Código as sort_values is claimed to compare them
IsNumeric(c) == IsDigits(c.s)
KeyLeq(a, b) ==
    IF IsNumeric(a) /\ IsNumeric(b) THEN StrToInt(a.s) <= StrToInt(b.s)
    ELSE ~IsNumeric(b)
KeyEq(a, b) == KeyLeq(a, b) /\ KeyLeq(b, a)

Texts(cells) == [k \in 1..Len(cells) |-> cells[k].s]

(***************************************************************************)
(* C17: the merged output holds the merged records sorted by Filial        *)
(* compared as numbers, then by Código compared as numbers, every          *)
(* identifier that fails numeric parsing after all numeric ones: Filial    *)
(* values "10", "2", "abc", "1" come out as "1", "2", "10", "abc".         *)
(***************************************************************************)
C17_NumericSortNonNumericLast ==
    (Returned /\ Joined) =>
        /\ \A k \in 1..(Len(final_df.rows) - 1) :
              LET a == final_df.rows[k]
                  b == final_df.rows[k + 1]
              IN /\ KeyLeq(a[1], b[1])
                 /\ KeyEq(a[1], b[1]) => KeyLeq(a[2], b[2])
        /\ Len(final_df.rows) = Len(merged_df.rows)
        /\ {final_df.rows[k][3] : k \in 1..Len(final_df.rows)}
              = {merged_df.rows[k][ColumnIndex(merged_df, lCPF)] : k \in 1..Len(merged_df.rows)}
        /\ Texts(Column(sci_in, lFilial)) = <<<<"1", "0">>, <<"2">>, <<"a", "b", "c">>, <<"1">>>>
              => Texts(Column(final_df, lFilial))
                    = <<<<"1">>, <<"2">>, <<"1", "0">>, <<"a", "b", "c">>>>

\* the example of the claim
C17_Witness ==
    /\ Returned /\ Joined
    /\ Texts(Column(sci_in, lFilial)) = <<<<"1", "0">>, <<"2">>, <<"a", "b", "c">>, <<"1">>>>
    /\ Texts(Column(final_df, lFilial)) = <<<<"1">>, <<"2">>, <<"1", "0">>, <<"a", "b", "c">>>>

LexAlphabet ==
    <<"0", "1", "2", "3", "4", "5", "6", "7", "8", "9", "a", "b", "c", "d", "x">>
CharRank(c) == CHOOSE i \in 1..Len(LexAlphabet) : LexAlphabet[i] = c

RECURSIVE LexLeq(_, _)
LexLeq(s, u) ==
    IF s = <<>> THEN TRUE
    ELSE IF u = <<>> THEN FALSE
    ELSE IF Head(s) = Head(u) THEN LexLeq(Tail(s), Tail(u))
    ELSE CharRank(Head(s)) < CharRank(Head(u))

(***************************************************************************)
(* C18: records whose Filial is not numeric are ordered among themselves   *)
(* in lexical order of that identifier.                                    *)
(***************************************************************************)
C18_NonNumericLexical ==
    (Returned /\ Joined) =>
        \A i, j \in 1..Len(final_df.rows) :
            (i < j /\ ~IsNumeric(final_df.rows[i][1]) /\ ~IsNumeric(final_df.rows[j][1]))
                => LexLeq(final_df.rows[i][1].s, final_df.rows[j][1].s)

(***************************************************************************)
(* C20: when a source has no column whose name contains 'cpf' the join is  *)
(* never executed and combine_data returns a table without data rows.      *)
(***************************************************************************)
C20_NoKeyColumnNoJoin ==
    (~HasCpfColumn(sci_in) \/ ~HasCpfColumn(trier_in)) =>
        /\ ~Joined
        /\ cstatus \in {"loaded", "done"}
        /\ Returned => final_df.rows = <<>>

\* user_trier has rows but no CPF column, user_sci has a CPF on every row
C20_Witness ==
    /\ Returned
    /\ ~HasCpfColumn(trier_in)
    /\ HasCpfColumn(sci_in)
    /\ Len(trier_in.rows) = 2
    /\ Len(sci_in.rows) = 2
    /\ <<>> \notin AllCpfs(sci_in)
    /\ final_df = Frame(<<lFilial, nCodigo, lCPF, nNome, lCargoAtual>>, <<>>)

(***************************************************************************)
(* DataCombiner.create_filtered_worksheet: the rows it uploads for a       *)
(* DataFrame df.  The frames of the model have the schema's columns in any *)
(* order, with or without 'Cargo atual', with or without a foreign column; *)
(* their cells are str, int or NaN.                                        *)
(***************************************************************************)
MaxProjRows == 2

lExtra == <<"E", "x", "t", "r", "a">>

ProjLayouts ==
    { FinalColumns,
      <<nNome, lExtra, lCPF, lFilial, nCodigo, lCargoAtual>>,
      <<lFilial, nCodigo, lCPF, nNome>>,
      <<lExtra, lCPF, nCodigo>>,
      <<lExtra>> }

ProjPatterns == {"own", "num", "int", "nan"}

\* the cell of column i (labelled label) in a row of the given pattern
ProjCell(pattern, i, label) ==
    CASE pattern = "own" -> StrV(label)
      [] pattern = "num" -> StrV(<<"7">>)
      [] pattern = "int" -> IntV(7)
      [] OTHER -> IF i % 2 = 1 THEN NaN ELSE StrV(<<>>)

ProjFrame(cols, patterns) ==
    Frame(cols,
          [k \in 1..Len(patterns) |->
              [i \in 1..Len(cols) |-> ProjCell(patterns[k], i, cols[i])]])

ProjFrames ==
    {ProjFrame(cols, ps) : cols \in ProjLayouts, ps \in SeqsUpTo(ProjPatterns, 0, MaxProjRows)}

\* create_filtered_worksheet on a table of its own
CreateFilteredWorksheet ==
    /\ wstatus = "input"
    /\ values' = UploadedValues(wdf)
    /\ wstatus' = "uploaded"
    /\ UNCHANGED wdf
    /\ UNCHANGED <<filialVars, filialHist, vendVars, resVars, cpfVars, combVars, extVars>>

InitProj ==
    /\ wdf \in ProjFrames
    /\ values = <<>>
    /\ wstatus = "input"
    /\ FilialIdle /\ VendIdle /\ ResIdle /\ CpfIdle /\ CombIdle /\ ExtIdle

NextProj == CreateFilteredWorksheet

SpecProj == InitProj /\ [][NextProj]_vars

(***************************************************************************)
(* C19: for every non-empty input table every uploaded row has exactly the *)
(* fields Filial, Código, CPF, Nome, Cargo atual in that order; a field    *)
(* missing from the input is present in every row with the empty string,   *)
(* fields outside the schema are dropped and existing values are passed    *)
(* through unchanged (a NaN cell, i.e. a missing value, is uploaded as the *)
(* empty string).                                                          *)
(***************************************************************************)
C19_Schema == <<lFilial, nCodigo, lCPF, nNome, lCargoAtual>>

C19_ProjectionToSchema ==
    (wstatus = "uploaded" /\ wdf.rows # <<>>) =>
        /\ Len(values) = Len(wdf.rows) + 1
        /\ values[1] = [j \in 1..5 |-> StrV(C19_Schema[j])]
        /\ \A k \in 1..Len(wdf.rows) :
              /\ Len(values[k + 1]) = 5
              /\ \A j \in 1..5 :
                    LET at == {i \in 1..Len(wdf.cols) : wdf.cols[i] = C19_Schema[j]}
                    IN IF at = {} THEN values[k + 1][j] = StrV(<<>>)
                       ELSE \A i \in at :
                               values[k + 1][j]
                                  = IF wdf.rows[k][i] = NaN THEN StrV(<<>>) ELSE wdf.rows[k][i]

\* two rows of a table without 'Cargo atual' and 'Filial' but with a foreign column
C19_Witness ==
    /\ wstatus = "uploaded"
    /\ wdf.cols = <<lExtra, lCPF, nCodigo>>
    /\ Len(wdf.rows) = 2
    /\ wdf.rows[1][2] = StrV(lCPF)
    /\ Len(values) = 3
    /\ values[2] = <<StrV(<<>>), StrV(nCodigo), StrV(lCPF), StrV(<<>>), StrV(<<>>)>>

(***************************************************************************)
(* Exit codes of main().                                                   *)
(*                                                                         *)
(* C21: main() returns 0 only when the run succeeded, 1 on a business-rule *)
(* failure, the merge finding no matching keys included, and 2 on an       *)
(* unexpected failure.  Stated for user_calc.py: when both worksheets have *)
(* all their columns and rows but share no CPF, main() returns 1.          *)
(***************************************************************************)
C21_NoMatchingKeysExitOne ==
    (calc_exit # "none" /\ Returned /\ SourcesUsable /\ CommonCpfs = {}) => calc_exit = "1"

(***************************************************************************)
(* C23: the merge never drops a matched record because an optional field   *)
(* is missing or empty: every CPF present in both worksheets yields a      *)
(* record of the returned table.                                           *)
(***************************************************************************)
C23_MatchedRecordNeverDropped == Returned => CommonCpfs \subseteq OutCpfs

(***************************************************************************)
(* C24: in each record of the merged output Filial and Cargo atual are the *)
(* values of one user_sci row with the record's CPF, and Código and Nome   *)
(* are the Código and Funcionário values of one user_trier row with that   *)
(* CPF.  The source columns are the first ones whose header names the      *)
(* field.                                                                  *)
(***************************************************************************)
C24_FirstColumn(f, terms) ==
    CHOOSE i \in 1..Len(f.cols) :
        /\ \E x \in terms : CaseContains(f.cols[i], x)
        /\ \A j \in 1..(i - 1) : \A x \in terms : ~CaseContains(f.cols[j], x)

C24_FieldsFromRowsOfSameKey ==
    (Returned /\ final_df.rows # <<>>) =>
        \A k \in 1..Len(final_df.rows) :
            LET rec == final_df.rows[k]
            IN /\ \E i \in 1..Len(sci_in.rows) :
                     /\ Normalized(sci_in.rows[i][CpfColumn(sci_in)]) = rec[3].s
                     /\ sci_in.rows[i][C24_FirstColumn(sci_in, {tfilial})] = rec[1]
                     /\ sci_in.rows[i][C24_FirstColumn(sci_in, {tcargo})] = rec[5]
               /\ \E j \in 1..Len(trier_in.rows) :
                     /\ Normalized(trier_in.rows[j][CpfColumn(trier_in)]) = rec[3].s
                     /\ trier_in.rows[j][C24_FirstColumn(trier_in, {tcodigo, tcodigoplain})]
                           = rec[2]
                     /\ trier_in.rows[j][C24_FirstColumn(trier_in,
                                             {tfuncionario, tfuncionarioplain, tnome})]
                           = rec[4]

\* the matching rows are the second of each worksheet, behind rows of other keys
C24_Witness ==
    /\ Returned
    /\ Len(sci_in.rows) = 2 /\ Len(trier_in.rows) = 2
    /\ Len(sci_in.cols) = 4
    /\ final_df.rows
         = << <<StrV(<<"2">>), StrV(<<"2", "0">>), StrV(<<"1", "1">>),
                StrV(<<"n", "2">>), StrV(<<"g", "2">>)>> >>

(***************************************************************************)
(* C27: after _find_and_rename_column has found a match the table has      *)
(* exactly one column named target_name, at most one column was renamed    *)
(* and every other column name is unchanged (rename does not touch the     *)
(* cells), also when a column already named target_name stands beside      *)
(* another matching column.  Stated for header rows of distinct names.     *)
(***************************************************************************)
C27_DistinctHeaders ==
    \A i, j \in 1..Len(columns) : columns[i] = columns[j] => i = j

C27_RenamesExactlyOneColumn ==
    (rstatus = "done" /\ matched # 0 /\ C27_DistinctHeaders) =>
        /\ Len(out_columns) = Len(columns)
        /\ Cardinality({i \in 1..Len(out_columns) : out_columns[i] = target_name}) = 1
        /\ Cardinality({i \in 1..Len(columns) : out_columns[i] # columns[i]}) <= 1
        /\ \A i \in 1..Len(columns) : i # matched => out_columns[i] = columns[i]

(***************************************************************************)
(* C28: in the filial-totals scan, after any prefix of the row sequence    *)
(* the number of emitted records is at most the number of 'Filial:' rows   *)
(* seen and at most the number of 'Total Filial' rows seen.                *)
(***************************************************************************)
C28_RecordsBoundedByMarkers == Len(data) <= n_open /\ Len(data) <= n_close

\* two records from two groups, with a third 'Total Filial' row that emitted nothing
C28_Witness == Len(data) = 2 /\ n_open = 2 /\ n_close = 3

(***************************************************************************)
(* File names of the SCI downloads: SCIDownloader writes them (user_sci.py)*)
(* and SCICSVProcessor.extract_filial_from_filename reads the filial back  *)
(* (ready_user_sci.py).                                                    *)
(***************************************************************************)
sCOLABORADORES == <<"C", "O", "L", "A", "B", "O", "R", "A", "D", "O", "R", "E", "S">>
sDotCsv == <<".", "c", "s", "v">>

\* the li[...] indexes of xpaths_filiais; filial 12 has a method of its own
XpathIndexes == (1..11) \cup (13..18)
Filial12 == 12
FilialIndexes == XpathIndexes \cup {Filial12}

\* f"COLABORADORES - {index.zfill(2)}", saved by esperar_download_concluir as
\* f"{nome_arquivo}.csv"; process_filial_12 passes the literal "COLABORADORES - 12"
DownloadName(i) ==
    IF i = Filial12 THEN sCOLABORADORES \o <<" ", "-", " ", "1", "2">> \o sDotCsv
    ELSE sCOLABORADORES \o <<" ", "-", " ">> \o Zfill(IntToStr(i), 2) \o sDotCsv

\* the first position from i on whose character is outside S (greedy S*)
RECURSIVE SkipWhile(_, _, _)
SkipWhile(s, i, S) ==
    IF i <= Len(s) /\ s[i] \in S THEN SkipWhile(s, i + 1, S) ELSE i

\* group 1 of COLABORADORES\s*-\s*(\d+) matched at position i under
\* re.IGNORECASE, <<>> when the pattern does not match there
MatchAt(s, i) ==
    LET a == i + Len(sCOLABORADORES)
        b == SkipWhile(s, a, Whitespace)
        c == SkipWhile(s, b + 1, Whitespace)
        d == SkipWhile(s, c, RegexDigits)
    IN IF /\ a - 1 <= Len(s)
          /\ Lower(SubSeq(s, i, a - 1)) = Lower(sCOLABORADORES)
          /\ b <= Len(s)
          /\ s[b] = "-"
       THEN SubSeq(s, c, d - 1)
       ELSE <<>>

\* re.search: the match at the leftmost position that has one
RegexSearch(s) ==
    LET hits == {i \in 1..Len(s) : MatchAt(s, i) # <<>>}
    IN IF hits = {} THEN <<>>
       ELSE MatchAt(s, CHOOSE i \in hits : \A j \in hits : i <= j)

\* mutant: the matched digits are returned as they are
ExtractFilialFromFilename_KeepsZeros(filename) ==
    LET g == RegexSearch(filename)
    IN IF g # <<>> THEN [status |-> "returned", filial |-> g]
       ELSE [status |-> "raised", filial |-> <<>>]

\* extract_filial_from_filename: str(int(group 1)) or SCIProcessingError
ExtractFilialFromFilename(filename) ==
    LET g == RegexSearch(filename)
    IN IF g # <<>> THEN [status |-> "returned", filial |-> IntToStr(StrToInt(g))]
       ELSE [status |-> "raised", filial |-> <<>>]

\* file names: the downloader's and others, with and without the pattern
NamePrefixes == {sCOLABORADORES, Lower(sCOLABORADORES), <<"R", "E", "L">>}
NameSeparators == {<<" ", "-", " ">>, <<"-">>, <<" ">>, <<" ", " ", "-">>, <<"_">>}
NameNumbers == {Zfill(IntToStr(i), 2) : i \in 0..18} \cup {<<>>, <<"0", "0", "7">>}
FileNames ==
    {pre \o sep \o num \o sDotCsv :
        pre \in NamePrefixes, sep \in NameSeparators, num \in NameNumbers}

ExtractFilial ==
    /\ fextract.status = "none"
    /\ fextract' = ExtractFilialFromFilename(fname)
    /\ UNCHANGED fname
    /\ UNCHANGED <<filialVars, filialHist, vendVars, resVars, cpfVars, combVars, projVars,
                   uploadVars, sciVars, runVars>>

InitName ==
    /\ fname \in FileNames
    /\ fextract = [status |-> "none", filial |-> <<>>]
    /\ FilialIdle /\ VendIdle /\ ResIdle /\ CpfIdle /\ CombIdle /\ ProjIdle
    /\ UploadIdle /\ SciIdle /\ RunIdle

NextName == ExtractFilial

SpecName == InitName /\ [][NextName]_vars

(***************************************************************************)
(* C30: for every filial index i the downloader uses,                      *)
(* extract_filial_from_filename applied to the name the downloader writes  *)
(* returns i without leading zeros; a name without the pattern             *)
(* (COLABORADORES in any case, a hyphen behind optional blanks, a digit    *)
(* behind optional blanks) raises SCIProcessingError.                      *)
(***************************************************************************)
C30_HasPattern(s) ==
    \E i \in 1..Len(s) :
        /\ i + Len(sCOLABORADORES) - 1 <= Len(s)
        /\ Lower(SubSeq(s, i, i + Len(sCOLABORADORES) - 1)) = Lower(sCOLABORADORES)
        /\ \E h \in (i + Len(sCOLABORADORES))..Len(s) :
              /\ s[h] = "-"
              /\ \A k \in (i + Len(sCOLABORADORES))..(h - 1) : s[k] = " "
              /\ \E g \in (h + 1)..Len(s) :
                    /\ s[g] \in DigitSet
                    /\ \A k \in (h + 1)..(g - 1) : s[k] = " "

C30_FileNameRoundTrip ==
    fextract.status # "none" =>
        /\ \A i \in FilialIndexes :
              fname = DownloadName(i)
                  => fextract = [status |-> "returned", filial |-> IntToStr(i)]
        /\ fextract.status = "raised" <=> ~C30_HasPattern(fname)

\* the file of filial 5 is named 'COLABORADORES - 05.csv' and gives '5'
C30_Witness ==
    /\ fname = DownloadName(5)
    /\ fname = sCOLABORADORES \o <<" ", "-", " ", "0", "5">> \o sDotCsv
    /\ fextract = [status |-> "returned", filial |-> <<"5">>]

(***************************************************************************)
(* SCIDownloader.run (user_sci.py): the driver set-up and login, the loop  *)
(* over xpaths_filiais, then filial 12.  Whether a download succeeds is    *)
(* the environment's choice; process_filial and process_filial_12 turn     *)
(* every exception into SCIDownloadError.                                  *)
(***************************************************************************)
\* xpaths_filiais: li[1] .. li[11], li[13] .. li[18]
XpathsFiliais == [k \in 1..Cardinality(XpathIndexes) |-> IF k < Filial12 THEN k ELSE k + 1]

\* setup_driver() and login(): an exception leaves run() before the loop
StartRun ==
    /\ run_status = "start"
    /\ \E ok \in BOOLEAN : run_status' = IF ok THEN "loop" ELSE "raised"
    /\ UNCHANGED <<run_idx, downloaded_files, attempted>>
    /\ UNCHANGED <<filialVars, filialHist, vendVars, resVars, cpfVars, combVars, projVars,
                   uploadVars, sciVars, nameVars>>

\* mutant: the SCIDownloadError of a filial is not caught
ProcessFilial_FailureAborts ==
    /\ run_status = "loop"
    /\ run_idx < Len(XpathsFiliais)
    /\ LET i == XpathsFiliais[run_idx + 1]
       IN /\ attempted' = Append(attempted, i)
          /\ \E ok \in BOOLEAN :
                IF ok
                THEN /\ downloaded_files' = Append(downloaded_files, DownloadName(i))
                     /\ run_status' = run_status
                ELSE /\ downloaded_files' = downloaded_files
                     /\ run_status' = "raised"
    /\ run_idx' = run_idx + 1
    /\ UNCHANGED <<filialVars, filialHist, vendVars, resVars, cpfVars, combVars, projVars,
                   uploadVars, sciVars, nameVars>>

\* one iteration of `for filial_xpath in self.xpaths_filiais`
ProcessFilial ==
    /\ run_status = "loop"
    /\ run_idx < Len(XpathsFiliais)
    /\ LET i == XpathsFiliais[run_idx + 1]
       IN /\ attempted' = Append(attempted, i)
          /\ \E ok \in BOOLEAN :
                downloaded_files' = IF ok THEN Append(downloaded_files, DownloadName(i))
                                    ELSE downloaded_files
    /\ run_idx' = run_idx + 1
    /\ UNCHANGED run_status
    /\ UNCHANGED <<filialVars, filialHist, vendVars, resVars, cpfVars, combVars, projVars,
                   uploadVars, sciVars, nameVars>>

\* filial 12, the check of downloaded_files and the return
ProcessFilial12 ==
    /\ run_status = "loop"
    /\ run_idx = Len(XpathsFiliais)
    /\ attempted' = Append(attempted, Filial12)
    /\ \E ok \in BOOLEAN :
          IF ok
          THEN /\ downloaded_files' = Append(downloaded_files, DownloadName(Filial12))
               /\ run_status' = IF downloaded_files' = <<>> THEN "raised" ELSE "returned"
          ELSE /\ downloaded_files' = downloaded_files
               /\ run_status' = "raised"
    /\ run_idx' = run_idx + 1
    /\ UNCHANGED <<filialVars, filialHist, vendVars, resVars, cpfVars, combVars, projVars,
                   uploadVars, sciVars, nameVars>>

InitRun ==
    /\ run_idx = 0
    /\ downloaded_files = <<>>
    /\ attempted = <<>>
    /\ run_status = "start"
    /\ FilialIdle /\ VendIdle /\ ResIdle /\ CpfIdle /\ CombIdle /\ ProjIdle
    /\ UploadIdle /\ SciIdle /\ NameIdle

NextRun == StartRun \/ ProcessFilial \/ ProcessFilial12

SpecRun == InitRun /\ [][NextRun]_vars

(***************************************************************************)
(* C29: a failure while processing a filial other than 12 never prevents   *)
(* the remaining filiais, filial 12 included, from being attempted; a      *)
(* failure of filial 12 makes run() fail even when every other filial was  *)
(* downloaded; filial 12 is attempted only after all other filiais.        *)
(***************************************************************************)
C29_AttemptOrder == XpathsFiliais \o <<Filial12>>

C29_Failed ==
    {attempted[k] : k \in 1..Len(attempted)}
        \ {i \in FilialIndexes : \E k \in 1..Len(downloaded_files) :
                                      downloaded_files[k] = DownloadName(i)}

C29_FailureIsolation ==
    /\ attempted = SubSeq(C29_AttemptOrder, 1, run_idx)
    /\ (run_status \in {"returned", "raised"} /\ attempted # <<>>)
          => attempted = C29_AttemptOrder
    /\ (run_status \in {"returned", "raised"} /\ Filial12 \in C29_Failed)
          => run_status = "raised"
    /\ \A k \in 1..Len(attempted) :
          attempted[k] = Filial12 => \A i \in XpathIndexes : \E j \in 1..(k - 1) : attempted[j] = i

\* filiais 1 and 18 failed, yet filial 12 was attempted and downloaded
C29_Witness ==
    /\ run_status = "returned"
    /\ C29_Failed = {1, 18}
    /\ attempted[Len(attempted)] = Filial12

\* every other filial was downloaded, filial 12 failed
C29_WitnessFilial12 ==
    /\ run_status = "raised"
    /\ C29_Failed = {Filial12}

(***************************************************************************)
(* SCICSVProcessor.merge_all_files and load_and_process_file               *)
(* (ready_user_sci.py).  A file of the input folder has a name, a content  *)
(* kind and the CPF of its one employee:                                   *)
(*   "full"       columns Centro de custo, CPF, Nome, Cargo atual          *)
(*   "nocargo"    columns CPF, Nome                                        *)
(*   "empty"      a header without rows                                    *)
(*   "unreadable" pd.read_csv fails under every encoding                   *)
(***************************************************************************)
MaxFiles == 3

lCentroDeCusto ==
    <<"C", "e", "n", "t", "r", "o", " ", "d", "e", " ", "c", "u", "s", "t", "o">>
sCentroNormalized == <<"c", "e", "n", "t", "r", "o", "d", "e", "c", "u", "s", "t", "o">>

\* names in the folder with their employee: two downloads, a download with an
\* upper-case extension, a CSV of another report and a text file
FolderNames ==
    { [name |-> DownloadName(5), cpf |-> <<"1">>],
      [name |-> DownloadName(Filial12), cpf |-> <<"2">>],
      [name |-> sCOLABORADORES \o <<" ", "-", " ", "0", "7", ".", "C", "S", "V">>,
       cpf |-> <<"3">>],
      [name |-> <<"R", "E", "L", " ", "-", " ", "0", "5">> \o sDotCsv, cpf |-> <<"4">>],
      [name |-> <<"n", ".", "t", "x", "t">>, cpf |-> <<"5">>] }

FileContents == {"full", "nocargo", "empty", "unreadable"}

FolderFiles ==
    {[name |-> n.name, cpf |-> n.cpf, content |-> c] : n \in FolderNames, c \in FileContents}

\* os.listdir: no name twice
Folders ==
    {fs \in SeqsUpTo(FolderFiles, 0, MaxFiles) :
        \A i, j \in 1..Len(fs) : fs[i].name = fs[j].name => i = j}

EndsWith(s, p) == Len(s) >= Len(p) /\ SubSeq(s, Len(s) - Len(p) + 1, Len(s)) = p

\* pd.read_csv on a readable file
ReadCsv(file) ==
    LET cols == IF file.content = "nocargo" THEN <<lCPF, nNome>>
                ELSE <<lCentroDeCusto, lCPF, nNome, lCargoAtual>>
        row == IF file.content = "nocargo"
               THEN <<StrV(file.cpf), StrV(<<"n">> \o file.cpf)>>
               ELSE <<StrV(<<"c", "c">>), StrV(file.cpf), StrV(<<"n">> \o file.cpf),
                      StrV(<<"g">> \o file.cpf)>>
    IN Frame(cols, IF file.content = "empty" THEN <<>> ELSE <<row>>)

\* col.lower().replace(" ", "") == "centrodecusto": the first such column
\* becomes 'Filial'
RenameCentroDeCusto(f) ==
    LET hits == {i \in 1..Len(f.cols) :
                    SelectSeq(Lower(f.cols[i]), LAMBDA c : c # " ") = sCentroNormalized}
    IN Frame(IF hits = {} THEN f.cols
             ELSE RenameColumn(f.cols, f.cols[CHOOSE i \in hits : \A j \in hits : i <= j],
                               lFilial),
             f.rows)

\* df["Filial"] = filial
SetFilial(f, num) ==
    IF HasColumn(f, lFilial)
    THEN Frame(f.cols,
               [k \in 1..Len(f.rows) |->
                   [i \in 1..Len(f.cols) |->
                       IF f.cols[i] = lFilial THEN StrV(num) ELSE f.rows[k][i]]])
    ELSE Frame(Append(f.cols, lFilial),
               [k \in 1..Len(f.rows) |-> Append(f.rows[k], StrV(num))])

\* load_and_process_file: "none" is the return of None for a bad file name,
\* "raised" an SCIProcessingError
LoadAndProcessFile(file) ==
    LET e == ExtractFilialFromFilename(file.name)
        f == ReadCsv(file)
    IN IF e.status = "raised" THEN [status |-> "none", df |-> <<>>]
       ELSE IF file.content = "unreadable" \/ IsEmptyFrame(f)
       THEN [status |-> "raised", df |-> <<>>]
       ELSE [status |-> "ok",
             df |-> SetFilial(RenameCentroDeCusto(f), e.filial)]

\* the column labels of the frames in order of first appearance
RECURSIVE ConcatColumns(_)
ConcatColumns(frames) ==
    IF frames = <<>> THEN <<>>
    ELSE LET before == ConcatColumns(SubSeq(frames, 1, Len(frames) - 1))
             f == frames[Len(frames)]
         IN before \o SelectSeq(f.cols, LAMBDA c : \A i \in 1..Len(before) : before[i] # c)

RECURSIVE ConcatRows(_, _)
ConcatRows(frames, cols) ==
    IF frames = <<>> THEN <<>>
    ELSE LET f == Head(frames)
         IN [k \in 1..Len(f.rows) |->
                [i \in 1..Len(cols) |->
                    IF HasColumn(f, cols[i]) THEN f.rows[k][ColumnIndex(f, cols[i])]
                    ELSE NaN]]
            \o ConcatRows(Tail(frames), cols)

\* pd.concat(all_data, ignore_index=True, sort=False)
Concat(frames) == Frame(ConcatColumns(frames), ConcatRows(frames, ConcatColumns(frames)))

\* merged["Filial"] = pd.to_numeric(merged["Filial"], errors='coerce')
NumericFilial(f) ==
    Frame(f.cols,
          [k \in 1..Len(f.rows) |->
              [i \in 1..Len(f.cols) |->
                  IF f.cols[i] = lFilial THEN ToNumeric(f.rows[k][i]) ELSE f.rows[k][i]]])

RequiredMerged == <<lFilial, lCPF, nNome, lCargoAtual>>

\* the listing of the folder and the check for CSV files
ListCsvFiles ==
    /\ mstatus = "start"
    /\ csv_files' = SelectSeq(input_folder, LAMBDA f : EndsWith(Lower(f.name), sDotCsv))
    /\ mstatus' = IF csv_files' = <<>> THEN "raised" ELSE "loop"
    /\ UNCHANGED <<file_idx, all_data, merged, input_folder>>
    /\ UNCHANGED <<filialVars, filialHist, vendVars, resVars, cpfVars, combVars, projVars,
                   uploadVars, nameVars, runVars>>

\* mutant: the SCIProcessingError of a file is not caught
ProcessCsvFile_FailureAborts ==
    /\ mstatus = "loop"
    /\ file_idx < Len(csv_files)
    /\ LET r == LoadAndProcessFile(csv_files[file_idx + 1])
       IN /\ all_data' = IF r.status = "ok" THEN Append(all_data, r.df) ELSE all_data
          /\ mstatus' = IF r.status = "raised" THEN "raised" ELSE mstatus
    /\ file_idx' = file_idx + 1
    /\ UNCHANGED <<csv_files, merged, input_folder>>
    /\ UNCHANGED <<filialVars, filialHist, vendVars, resVars, cpfVars, combVars, projVars,
                   uploadVars, nameVars, runVars>>

\* one iteration of `for file in csv_files`
ProcessCsvFile ==
    /\ mstatus = "loop"
    /\ file_idx < Len(csv_files)
    /\ LET r == LoadAndProcessFile(csv_files[file_idx + 1])
       IN all_data' = IF r.status = "ok" THEN Append(all_data, r.df) ELSE all_data
    /\ file_idx' = file_idx + 1
    /\ UNCHANGED <<csv_files, merged, input_folder, mstatus>>
    /\ UNCHANGED <<filialVars, filialHist, vendVars, resVars, cpfVars, combVars, projVars,
                   uploadVars, nameVars, runVars>>

\* after the loop: the check of all_data, the concat and the required columns
FinishMerge ==
    /\ mstatus = "loop"
    /\ file_idx = Len(csv_files)
    /\ IF all_data = <<>>
       THEN merged' = merged /\ mstatus' = "raised"
       ELSE /\ merged' = NumericFilial(Concat(all_data))
            /\ mstatus' = IF MissingColumns(merged', RequiredMerged) # <<>>
                          THEN "raised" ELSE "returned"
    /\ UNCHANGED <<csv_files, file_idx, all_data, input_folder>>
    /\ UNCHANGED <<filialVars, filialHist, vendVars, resVars, cpfVars, combVars, projVars,
                   uploadVars, nameVars, runVars>>

InitMerge ==
    /\ input_folder \in Folders
    /\ csv_files = <<>>
    /\ file_idx = 0
    /\ all_data = <<>>
    /\ merged = <<>>
    /\ mstatus = "start"
    /\ FilialIdle /\ VendIdle /\ ResIdle /\ CpfIdle /\ CombIdle /\ ProjIdle
    /\ UploadIdle /\ NameIdle /\ RunIdle

NextMerge == ListCsvFiles \/ ProcessCsvFile \/ FinishMerge

SpecMerge == InitMerge /\ [][NextMerge]_vars

(***************************************************************************)
(* C26: in merge_all_files a CSV file that fails to load (bad file name,   *)
(* unreadable, empty) aborts only its own contribution: the row of every   *)
(* other CSV file is in the merged table, with the filial of its file      *)
(* name; the merge fails as a whole only when no file at all could be      *)
(* processed or a required column is missing after merging.                *)
(***************************************************************************)
C26_IsCsv(file) ==
    \E n \in 1..Len(file.name) :
        /\ n + 3 = Len(file.name)
        /\ file.name[n] = "."
        /\ file.name[n + 1] \in {"c", "C"}
        /\ file.name[n + 2] \in {"s", "S"}
        /\ file.name[n + 3] \in {"v", "V"}

C26_Loadable(file) ==
    /\ C26_IsCsv(file)
    /\ C30_HasPattern(file.name)
    /\ file.content \in {"full", "nocargo"}

C26_Loadables == {k \in 1..Len(input_folder) : C26_Loadable(input_folder[k])}

C26_Finished == mstatus \in {"returned", "raised"}

C26_CellOf(row, label) == row[ColumnIndex(merged, label)]

C26_FailureAbortsOnlyItsFile ==
    /\ mstatus = "returned" =>
          /\ Len(merged.rows) = Cardinality(C26_Loadables)
          /\ \A k \in C26_Loadables :
                \E r \in 1..Len(merged.rows) :
                    /\ C26_CellOf(merged.rows[r], lCPF) = StrV(input_folder[k].cpf)
                    /\ C26_CellOf(merged.rows[r], lFilial)
                          = ToNumeric(StrV(ExtractFilialFromFilename(input_folder[k].name).filial))
    /\ C26_Finished =>
          (mstatus = "raised"
              <=> \/ C26_Loadables = {}
                  \/ \A k \in C26_Loadables : input_folder[k].content = "nocargo")

\* three CSV files: an unreadable one, one with a foreign name and a good one
C26_Witness ==
    /\ mstatus = "returned"
    /\ Len(input_folder) = 3
    /\ input_folder[1].content = "unreadable" /\ input_folder[1].name = DownloadName(5)
    /\ input_folder[2].content = "full" /\ ~C30_HasPattern(input_folder[2].name)
    /\ C26_IsCsv(input_folder[2])
    /\ input_folder[3].content = "full" /\ input_folder[3].name = DownloadName(Filial12)
    /\ Len(merged.rows) = 1
    /\ C26_CellOf(merged.rows[1], lFilial) = IntV(12)

(***************************************************************************)
(* The uploads to Google Sheets: create_filtered_worksheet (user_calc.py), *)
(* upload_vendas_filial (read_venda_filial.py), upload_vendas_vendedor     *)
(* (ready_venda_vendedor.py), upload_comissoes (ready_comissao_vendedor.py)*)
(* and update_sheet (ready_user_trier.py).  The worksheet is the set of    *)
(* its non-empty cells; a cell value is "old" for prior contents, "h" for  *)
(* the field name of a column and "d" for the datum of a row and column.   *)
(* Each invocation of the update call is a step; its outcome is the        *)
(* environment's choice.                                                   *)
(***************************************************************************)
MaxUploadRows == 2

\* retries=3 of retry_api_call and range(3) of upload_comissoes
DefaultRetries == 3
InlineAttempts == 3
\* the last column of the ranges "A2:Z" and "A1:Z"
ZColumn == 26

Uploaders == {"calc", "filial", "vendedor", "comissoes", "trier"}

\* number of columns of the uploaded table: required_columns, the five fields
\* of the filial totals, COLUMN_ORDER, the six comissão columns, and Código,
\* Funcionário, CPF of user_trier
TableWidth(v) ==
    CASE v = "calc" -> 5
      [] v = "filial" -> 5
      [] v = "vendedor" -> 4
      [] v = "comissoes" -> 6
      [] OTHER -> 3

Cell(r, c, kind, i, j) == [row |-> r, col |-> c, val |-> <<kind, i, j>>]

OldCell(r, c) == Cell(r, c, "old", 0, 0)

\* prior contents: cells inside and outside the new table, beyond its last
\* column, below its last row and beyond column Z
OldCells ==
    { OldCell(1, 1), OldCell(1, 6), OldCell(2, 2), OldCell(MaxUploadRows + 2, 1),
      OldCell(1, ZColumn + 1), OldCell(3, ZColumn + 1) }

\* [df.columns.tolist()] + df.values.tolist() written from A1
TableCells(width, n) ==
    {Cell(1, c, "h", 0, c) : c \in 1..width}
        \cup {Cell(r + 1, c, "d", r, c) : r \in 1..n, c \in 1..width}

\* worksheet.clear(), batch_clear(["A2:Z"]) and batch_clear(["A1:Z"])
ClearedCells(v, cells) ==
    CASE v \in {"calc", "comissoes", "trier"} -> {}
      [] v = "filial" -> {x \in cells : x.row < 2 \/ x.col > ZColumn}
      [] OTHER -> {x \in cells : x.col > ZColumn}

\* an update writes the cells of its values and leaves the others alone
UpdatedCells(cells, table) ==
    {x \in cells : \A y \in table : x.row # y.row \/ x.col # y.col} \cup table

\* how the update call is wrapped
RetryKind(v) ==
    CASE v \in {"filial", "vendedor", "trier"} -> "retry_api_call"
      [] v = "comissoes" -> "inline"
      [] OTHER -> "single"

\* mutant: a status 500 is retried without limit
AfterFailure_Unbounded(kind, i, o) ==
    IF kind # "single" /\ o = "http500" THEN [status |-> "cleared", error |-> "none"]
    ELSE [status |-> "failed", error |-> o]

\* mutant: every HttpError is retried
AfterFailure_RetriesAnyHttpError(kind, i, o) ==
    CASE kind = "retry_api_call" ->
            IF o \in {"http500", "http403"}
            THEN IF i < DefaultRetries THEN [status |-> "cleared", error |-> "none"]
                 ELSE [status |-> "failed", error |-> "max_retries"]
            ELSE [status |-> "failed", error |-> o]
      [] kind = "inline" ->
            IF o \in {"http500", "http403"} /\ i < InlineAttempts
            THEN [status |-> "cleared", error |-> "none"]
            ELSE [status |-> "failed", error |-> o]
      [] OTHER -> [status |-> "failed", error |-> o]

\* what follows the i-th invocation when it failed with o: another attempt
\* (status "cleared") or the exception that leaves the uploader
AfterFailure(kind, i, o) ==
    CASE kind = "retry_api_call" ->
            IF o = "http500"
            THEN IF i < DefaultRetries THEN [status |-> "cleared", error |-> "none"]
                 ELSE [status |-> "failed", error |-> "max_retries"]
            ELSE [status |-> "failed", error |-> o]
      [] kind = "inline" ->
            IF o = "http500" /\ i < InlineAttempts
            THEN [status |-> "cleared", error |-> "none"]
            ELSE [status |-> "failed", error |-> o]
      [] OTHER -> [status |-> "failed", error |-> o]

\* the outcome of one invocation: success, HttpError with status 500, HttpError
\* with another status, another exception
CallOutcomes == {"ok", "http500", "http403", "other"}

\* the check of df.empty and the clear of the old contents
ClearWorksheet ==
    /\ ustatus = "start"
    /\ IF uvariant # "calc" /\ upload_rows = 0
       THEN /\ ustatus' = "failed"
            /\ uerror' = "empty_df"
            /\ UNCHANGED <<worksheet, ops>>
       ELSE \E ok \in BOOLEAN :
               IF ok
               THEN /\ worksheet' = ClearedCells(uvariant, worksheet)
                    /\ ops' = Append(ops, "clear")
                    /\ ustatus' = "cleared"
                    /\ uerror' = uerror
               ELSE /\ ustatus' = "failed"
                    /\ uerror' = "other"
                    /\ ops' = Append(ops, "clear")
                    /\ worksheet' = worksheet
    /\ UNCHANGED <<uvariant, upload_rows, outcomes>>
    /\ UNCHANGED <<filialVars, filialHist, vendVars, resVars, cpfVars, combVars, projVars,
                   sciVars, nameVars, runVars>>

\* one invocation of the update call and what the wrapper does with its outcome
AttemptUpdate ==
    /\ ustatus = "cleared"
    /\ \E o \in CallOutcomes :
          /\ outcomes' = Append(outcomes, o)
          /\ ops' = Append(ops, "update")
          /\ IF o = "ok"
             THEN /\ worksheet' = UpdatedCells(worksheet,
                                               TableCells(TableWidth(uvariant), upload_rows))
                  /\ ustatus' = "written"
                  /\ uerror' = uerror
             ELSE LET a == AfterFailure(RetryKind(uvariant), Len(outcomes) + 1, o)
                  IN /\ ustatus' = a.status
                     /\ uerror' = a.error
                     /\ worksheet' = worksheet
    /\ UNCHANGED <<uvariant, upload_rows>>
    /\ UNCHANGED <<filialVars, filialHist, vendVars, resVars, cpfVars, combVars, projVars,
                   sciVars, nameVars, runVars>>

InitUpload ==
    /\ uvariant \in Uploaders
    /\ worksheet \in SUBSET OldCells
    /\ upload_rows \in 0..MaxUploadRows
    /\ outcomes = <<>>
    /\ ops = <<>>
    /\ ustatus = "start"
    /\ uerror = "none"
    /\ FilialIdle /\ VendIdle /\ ResIdle /\ CpfIdle /\ CombIdle /\ ProjIdle
    /\ SciIdle /\ NameIdle /\ RunIdle

NextUpload == ClearWorksheet \/ AttemptUpdate

SpecUpload == InitUpload /\ [][NextUpload]_vars

(***************************************************************************)
(* C22: after any successful upload the worksheet holds exactly the new    *)
(* table: row 1 is the field names, rows 2.. are the data rows in schema   *)
(* order, and no cell of the prior contents remains; the clear of the old  *)
(* contents precedes the write of the new ones.                            *)
(***************************************************************************)
C22_WorksheetHoldsExactlyNewTable ==
    ustatus = "written" =>
        /\ worksheet = TableCells(TableWidth(uvariant), upload_rows)
        /\ ops[1] = "clear"
        /\ \A k \in 2..Len(ops) : ops[k] = "update"

(***************************************************************************)
(* C25: the upload retry is bounded.  retry_api_call invokes the call at   *)
(* most DefaultRetries times, returns at the first successful invocation   *)
(* without invoking again, re-raises an error other than HTTP status 500   *)
(* without a further attempt and raises 'Max retries reached' after        *)
(* DefaultRetries consecutive status-500 failures; the inline loop of      *)
(* upload_comissoes makes at most 3 attempts.                              *)
(***************************************************************************)
C25_Last == outcomes[Len(outcomes)]

C25_BoundedRetry ==
    /\ RetryKind(uvariant) = "retry_api_call" => Len(outcomes) <= DefaultRetries
    /\ RetryKind(uvariant) = "inline" => Len(outcomes) <= 3
    /\ \A k \in 1..(Len(outcomes) - 1) : outcomes[k] = "http500"
    /\ (outcomes # <<>> /\ C25_Last = "ok") => ustatus = "written"
    /\ (RetryKind(uvariant) = "retry_api_call" /\ outcomes # <<>>) =>
          /\ C25_Last \in {"http403", "other"} => (ustatus = "failed" /\ uerror = C25_Last)
          /\ uerror = "max_retries"
                <=> outcomes = [k \in 1..DefaultRetries |-> "http500"]
          /\ (C25_Last = "http500" /\ Len(outcomes) < DefaultRetries) => ustatus = "cleared"

\* three invocations answered with status 500 end with 'Max retries reached'
C25_Witness ==
    /\ uvariant = "trier"
    /\ outcomes = <<"http500", "http500", "http500">>
    /\ ustatus = "failed"
    /\ uerror = "max_retries"

\* the third invocation of a retried upload succeeds
C25_WitnessSuccess ==
    /\ uvariant = "filial"
    /\ outcomes = <<"http500", "http500", "ok">>
    /\ ustatus = "written"

====
